---- MODULE Spec2Model ----
(***************************************************************************)
(* Model of the calunga issue-detection and batch-remediation engine:      *)
(*   find_issues.py  analyze_package (the classifier)                      *)
(*   fix_issues.py   fix_issues, process_batch_rebuild,                    *)
(*                   process_batch_release and their polling loops         *)
(* External systems (git, gh, oc, the package index) answer every call     *)
(* with a nondeterministically chosen outcome, failures included.          *)
(***************************************************************************)
EXTENDS Integers, Sequences, FiniteSets, TLC

VARIABLES
    env,               \* analyze_package: what the external lookups answer
    result,            \* analyze_package: its return value, or Raised
    file_state,        \* fix_issues: state of the issues file on disk
    issues,            \* fix_issues: data["issues"] of the report
    batch_rebuild,     \* fix_issues: the --batch-rebuild option
    pc,                \* position of the running remediation code
    type_idx,          \* fix_issues: index of the issue type being processed
    batch_start,       \* fix_issues: loop variable i of the batch loops
    batch,             \* process_batch_*: the batch being processed
    k,                 \* process_batch_*: position of the inner for loop
    marked,            \* packages whose argfile.conf was rewritten
    staged,            \* packages whose argfile.conf was git-added
    commits,           \* commits created in the local repository
    pushes,            \* commits pushed to the remote
    commit_sha,        \* process_batch_rebuild: the captured commit id
    max_wait_minutes,  \* wait_for_*: the max_wait_minutes argument
    elapsed,           \* wait_for_*: time.time() - start_time, in seconds
    checks_found,      \* wait_for_commit_checks: checks_found
    check_runs,        \* wait_for_commit_checks: check runs of the last poll
    polled,            \* whether a check-run poll was issued for the batch
    success,           \* return value of the last wait_for_* call
    snapshot_name,     \* process_batch_release: snapshot of the current issue
    releases_created,  \* process_batch_release: releases_created
    cluster_releases,  \* snapshots of the Releases existing in the cluster
    polled_releases,   \* releases of the batch whose status was polled
    all_successful,    \* process_batch_release: all_successful
    attempted,         \* batches handed to a workflow, in order
    fail_cause,        \* first failure the external systems delivered
    exc,               \* exception that ended the run ("none" if none)
    exit_code,         \* exit status of the run, meaningful when pc = "done"
    reason,            \* wait_for_release_completion: reason of the last poll
    wait_results,      \* outcome of the wait for each release of the batch
    failed_before,     \* a poll that did not return showed a failed check
    argfile,           \* mark_package_for_rebuild: content of argfile.conf
    argfile_orig,      \* content of argfile.conf before the first call
    now,               \* mark_package_for_rebuild: the clock, in seconds
    marks,             \* calls of mark_package_for_rebuild that returned
    mark_raised,       \* whether the last call of it raised
    dir_exists,        \* find_issues: whether <path>/packages exists
    packages,          \* find_issues: number of package directories
    workers,           \* find_issues: the --workers option
    scan_pc,           \* find_issues: position of the scan
    task,              \* find_issues: state of each submitted future
    task_result,       \* find_issues: what each finished future holds
    results,           \* find_issues: results, in the order collected
    report,            \* find_issues: output_data
    http_status,       \* index_version: the response's status, or raised
    page,              \* index_version: the anchor texts of response.text
    index_result,      \* index_version: what the call returned
    manifest,          \* package_version: requirements.txt of the package
    version_result     \* package_version: what the call returned

classifyVars == <<env, result>>

runVars == <<file_state, issues, batch_rebuild, pc, type_idx, batch_start,
             batch, k, marked, staged, commits, pushes, commit_sha,
             max_wait_minutes, elapsed, checks_found, check_runs, polled,
             success, snapshot_name, releases_created, cluster_releases,
             polled_releases, all_successful, attempted, fail_cause, exc,
             exit_code, reason, wait_results, failed_before>>

relHist == <<reason, wait_results>>

markVars == <<argfile, argfile_orig, now, marks, mark_raised>>

scanVars == <<dir_exists, packages, workers, scan_pc, task, task_result,
              results, report>>

vars == <<env, result, file_state, issues, batch_rebuild, pc, type_idx,
          batch_start, batch, k, marked, staged, commits, pushes, commit_sha,
          max_wait_minutes, elapsed, checks_found, check_runs, polled,
          success, snapshot_name, releases_created, cluster_releases,
          polled_releases, all_successful, attempted, fail_cause, exc,
          exit_code, reason, wait_results, failed_before, argfile,
          argfile_orig, now, marks,
          mark_raised, dir_exists, packages, workers, scan_pc, task,
          task_result, results, report, http_status, page, index_result,
          manifest, version_result>>

oracleVars == <<http_status, page, index_result, manifest, version_result>>

(***************************************************************************)
(* Values                                                                  *)
(***************************************************************************)

\* Python's None.
NoneVal == "<None>"

\* The outcome "the call raised an exception".
Err == "<raised>"

SeqsUpTo(S, n) == UNION {[1..m -> S] : m \in 0..n}

Range(s) == {s[i] : i \in 1..Len(s)}

(***************************************************************************)
(* find_issues.py: analyze_package                                         *)
(***************************************************************************)

Versions == {"1.2.3", "1.2.4"}

Commits == {"abc123", "def456"}

\* package_version: the version of requirements.txt, or None.
GitVersionOutcomes == Versions \cup {NoneVal}

\* index_version: a version, "MISSING" on a 404, None, or requests raises.
IndexVersionOutcomes == Versions \cup {"MISSING", NoneVal, Err}

\* latest_built_commit_id: status.lastBuiltCommit, None, or oc fails.
BuiltCommitOutcomes == Commits \cup {NoneVal, Err}

\* latest_commit_id: git's stripped output ("" when no commit), or git fails.
HeadCommitOutcomes == Commits \cup {"", Err}

\* find_snapshot_for_commit_id (find_issues.py): a name, None, or oc fails.
SnapshotOutcomes == {"pkg-abc123", NoneVal, Err}

Envs == [package_name : {"pkg"},
         git_version : GitVersionOutcomes,
         index_version : IndexVersionOutcomes,
         built_commit_id : BuiltCommitOutcomes,
         commit_id : HeadCommitOutcomes,
         snapshot : SnapshotOutcomes]

NotRun == [state |-> "not_run"]

Raised == [state |-> "raised"]

\* A plausible slip: the artifact lookup is consulted before the commits.
classify_artifact_first(e) ==
    IF e.git_version # e.index_version
    THEN IF e.snapshot \notin {NoneVal, Err}
         THEN [issue_type |-> "needs_release",
               issue_description |->
                   <<"Build exists but not released. Snapshot: ", e.snapshot>>,
               action_needed |-> "release"]
         ELSE IF e.built_commit_id # e.commit_id
         THEN [issue_type |-> "needs_rebuild",
               issue_description |->
                   <<"Commit mismatch: built commit is ", e.built_commit_id,
                     ", current commit is ", e.commit_id>>,
               action_needed |-> "rebuild"]
         ELSE [issue_type |-> "unknown",
               issue_description |->
                   <<"Version mismatch but no clear action identified">>,
               action_needed |-> "investigate"]
    ELSE [issue_type |-> "no_issue",
          issue_description |-> <<"Versions match">>,
          action_needed |-> "none"]

\* A plausible slip: an absent version never counts as matching.
classify_none_differs(e) ==
    IF e.git_version # e.index_version \/ e.git_version = NoneVal
    THEN [issue_type |-> "unknown",
          issue_description |->
              <<"Version mismatch but no clear action identified">>,
          action_needed |-> "investigate"]
    ELSE [issue_type |-> "no_issue",
          issue_description |-> <<"Versions match">>,
          action_needed |-> "none"]

\* A plausible slip: the description of needs_release omits the snapshot.
classify_no_snapshot_in_description(e) ==
    IF e.git_version # e.index_version
    THEN IF e.built_commit_id # e.commit_id
         THEN [issue_type |-> "needs_rebuild",
               issue_description |->
                   <<"Commit mismatch: built commit is ", e.built_commit_id,
                     ", current commit is ", e.commit_id>>,
               action_needed |-> "rebuild"]
         ELSE IF e.snapshot # NoneVal
         THEN [issue_type |-> "needs_release",
               issue_description |-> <<"Build exists but not released.">>,
               action_needed |-> "release"]
         ELSE [issue_type |-> "unknown",
               issue_description |->
                   <<"Version mismatch but no clear action identified">>,
               action_needed |-> "investigate"]
    ELSE [issue_type |-> "no_issue",
          issue_description |-> <<"Versions match">>,
          action_needed |-> "none"]

\* A plausible slip: a missing snapshot is reported as needing a rebuild.
classify_missing_snapshot_rebuild(e) ==
    IF e.git_version # e.index_version
    THEN IF e.built_commit_id # e.commit_id \/ e.snapshot = NoneVal
         THEN [issue_type |-> "needs_rebuild",
               issue_description |->
                   <<"Commit mismatch: built commit is ", e.built_commit_id,
                     ", current commit is ", e.commit_id>>,
               action_needed |-> "rebuild"]
         ELSE [issue_type |-> "needs_release",
               issue_description |->
                   <<"Build exists but not released. Snapshot: ", e.snapshot>>,
               action_needed |-> "release"]
    ELSE [issue_type |-> "no_issue",
          issue_description |-> <<"Versions match">>,
          action_needed |-> "none"]

\* A plausible slip: the commits are compared before the versions.
classify_commits_first(e) ==
    IF e.built_commit_id # e.commit_id
    THEN [issue_type |-> "needs_rebuild",
          issue_description |->
              <<"Commit mismatch: built commit is ", e.built_commit_id,
                ", current commit is ", e.commit_id>>,
          action_needed |-> "rebuild"]
    ELSE IF e.git_version = e.index_version
    THEN [issue_type |-> "no_issue",
          issue_description |-> <<"Versions match">>,
          action_needed |-> "none"]
    ELSE IF e.snapshot # NoneVal
    THEN [issue_type |-> "needs_release",
          issue_description |->
              <<"Build exists but not released. Snapshot: ", e.snapshot>>,
          action_needed |-> "release"]
    ELSE [issue_type |-> "unknown",
          issue_description |->
              <<"Version mismatch but no clear action identified">>,
          action_needed |-> "investigate"]

\* The decision of analyze_package (lines 140-164). An f-string is the
\* sequence of its literal and interpolated parts.
classify(e) ==
    IF e.git_version # e.index_version
    THEN IF e.built_commit_id # e.commit_id
         THEN [issue_type |-> "needs_rebuild",
               issue_description |->
                   <<"Commit mismatch: built commit is ", e.built_commit_id,
                     ", current commit is ", e.commit_id>>,
               action_needed |-> "rebuild"]
         ELSE IF e.snapshot # NoneVal
         THEN [issue_type |-> "needs_release",
               issue_description |->
                   <<"Build exists but not released. Snapshot: ", e.snapshot>>,
               action_needed |-> "release"]
         ELSE [issue_type |-> "unknown",
               issue_description |->
                   <<"Version mismatch but no clear action identified">>,
               action_needed |-> "investigate"]
    ELSE [issue_type |-> "no_issue",
          issue_description |-> <<"Versions match">>,
          action_needed |-> "none"]

\* Whether some call made by analyze_package raises: the three lookups of
\* lines 134-138 always run, the snapshot lookup only on line 152.
analyze_raises(e) ==
    \/ e.index_version = Err
    \/ e.built_commit_id = Err
    \/ e.commit_id = Err
    \/ /\ e.git_version # e.index_version
       /\ e.built_commit_id = e.commit_id
       /\ e.snapshot = Err

analyze_package(e) ==
    IF analyze_raises(e)
    THEN Raised
    ELSE LET c == classify(e)
         IN  [state |-> "returned",
              package_name |-> e.package_name,
              git_version |-> e.git_version,
              index_version |-> e.index_version,
              built_commit_id |-> e.built_commit_id,
              current_commit_id |-> e.commit_id,
              issue_type |-> c.issue_type,
              issue_description |-> c.issue_description,
              action_needed |-> c.action_needed]

(***************************************************************************)
(* fix_issues.py: shared pieces                                            *)
(***************************************************************************)

\* time.sleep(30) of every polling loop.
SleepSeconds == 30

\* Default max_wait_minutes of wait_for_commit_checks.
DefaultChecksWait == 5

\* Default max_wait_minutes of wait_for_release_completion.
DefaultReleaseWait == 10

\* Between two readings of the clock at least the sleep elapses, and up to
\* MaxLatency further sleep-lengths for the external call itself.
MaxLatency == 1

Delays == {SleepSeconds * (1 + l) : l \in 0..MaxLatency}

Min(a, b) == IF a < b THEN a ELSE b

\* The clock is followed until it is well past the window of the loop.
ClockCap(minutes) == minutes * 60 + 2 * SleepSeconds

Tick(d) == elapsed' = Min(elapsed + d, ClockCap(max_wait_minutes))

inputVars == <<file_state, issues, batch_rebuild>>

loopVars == <<type_idx, batch_start, batch, k>>

gitVars == <<marked, staged, commits, pushes, commit_sha>>

waitVars == <<max_wait_minutes, elapsed, checks_found, check_runs, polled,
              success>>

relVars == <<snapshot_name, releases_created, cluster_releases,
             polled_releases, all_successful>>

\* The first failure an external system delivered to the run.
NoteFailure(c) == fail_cause' = IF fail_cause = "none" THEN c ELSE fail_cause

\* An exception that no handler swallows ends the run: process_batch_*
\* re-raise (lines 331, 385, 394, 407) and fix_issues has no handler.
\* typer.Exit(1) exits with 1, any other uncaught exception with 1 too.
Raise(e) ==
    /\ pc' = "done"
    /\ exc' = e
    /\ exit_code' = 1

(***************************************************************************)
(* fix_issues.py: wait_for_commit_checks                                   *)
(***************************************************************************)

MaxChecks == 2

\* A check run as the loop reads it: check.get("status"), .get("conclusion").
CheckKinds ==
    {[status |-> "queued", conclusion |-> NoneVal],
     [status |-> "in_progress", conclusion |-> NoneVal],
     [status |-> "completed", conclusion |-> "success"],
     [status |-> "completed", conclusion |-> "failure"],
     [status |-> "completed", conclusion |-> "cancelled"],
     [status |-> "completed", conclusion |-> "timed_out"]}

\* Within a whole run of fix_issues a poll answers with fewer check runs
\* than when wait_for_commit_checks is explored on its own.
MaxChecksInRun == 1

\* What one poll of the check-runs endpoint may answer.
CheckRunLists ==
    SeqsUpTo(CheckKinds, IF batch = <<>> THEN MaxChecks ELSE MaxChecksInRun)

Running(c) == c.status = "queued" \/ c.status = "in_progress"

\* A plausible slip: a failed check ends the wait although others still run.
checks_all_completed_early_exit(cr) ==
    \/ \A i \in 1..Len(cr) : ~Running(cr[i])
    \/ \E i \in 1..Len(cr) : cr[i].conclusion \in {"failure", "cancelled"}

\* all_completed after the for loop of lines 133-147.
checks_all_completed(cr) == \A i \in 1..Len(cr) : ~Running(cr[i])

\* all_successful after the for loop of lines 133-147: only a check that is
\* not running and concluded failure or cancelled clears it.
checks_all_successful(cr) ==
    \A i \in 1..Len(cr) :
        Running(cr[i]) \/ cr[i].conclusion \notin {"failure", "cancelled"}

\* Entry of wait_for_commit_checks(commit_sha) with the default window.
EnterChecks ==
    /\ pc' = "checks_appear"
    /\ max_wait_minutes' = DefaultChecksWait
    /\ elapsed' = 0
    /\ checks_found' = FALSE
    /\ check_runs' = <<>>

\* One pass of the while loop of lines 92-106.
ChecksAppearPoll ==
    /\ pc = "checks_appear"
    /\ elapsed < max_wait_minutes * 60
    /\ polled' = TRUE
    /\ \/ \* gh api fails: CalledProcessError leaves the function
          /\ Raise("CalledProcessError")
          /\ NoteFailure("checks_query_failed")
          /\ UNCHANGED <<max_wait_minutes, elapsed, checks_found, check_runs,
                         success>>
       \/ \E cr \in CheckRunLists, d \in Delays :
             /\ check_runs' = cr
             /\ IF Len(cr) > 0
                THEN /\ checks_found' = TRUE
                     /\ pc' = "checks_complete"
                     /\ UNCHANGED elapsed
                ELSE /\ Tick(d)
                     /\ UNCHANGED <<checks_found, pc>>
             /\ UNCHANGED <<max_wait_minutes, success, fail_cause, exc,
                            exit_code>>
    /\ UNCHANGED <<classifyVars, oracleVars, failed_before, markVars, scanVars,
                   relHist,
                   inputVars, loopVars, gitVars, relVars,
                   attempted>>

\* A plausible slip: without the return of line 110 the function falls
\* through to the completion loop.
ChecksAppearTimeout_falls_through ==
    /\ pc = "checks_appear"
    /\ elapsed >= max_wait_minutes * 60
    /\ pc' = "checks_complete"
    /\ UNCHANGED <<classifyVars, oracleVars, failed_before, markVars, scanVars,
                   relHist, inputVars,
                   loopVars, gitVars, relVars, max_wait_minutes, elapsed,
                   checks_found, check_runs, polled, success, attempted,
                   fail_cause, exc, exit_code>>

\* The loop condition of line 92 fails: lines 108-110 return False.
ChecksAppearTimeout ==
    /\ pc = "checks_appear"
    /\ elapsed >= max_wait_minutes * 60
    /\ success' = FALSE
    /\ pc' = "checks_returned"
    /\ NoteFailure("checks_never_appeared")
    /\ UNCHANGED <<classifyVars, oracleVars, failed_before, markVars, scanVars,
                   relHist,
                   inputVars, loopVars, gitVars, relVars,
                   max_wait_minutes, elapsed, checks_found, check_runs,
                   polled, attempted, exc, exit_code>>

\* Some check run of the poll's answer concluded failure or cancelled.
has_failed_check(cr) ==
    \E i \in 1..Len(cr) : cr[i].conclusion \in {"failure", "cancelled"}

\* A plausible slip: all_successful is set once before the while loop, so a
\* failure seen on a poll that did not return sticks.
ChecksCompletePoll_sticky_failure ==
    /\ pc = "checks_complete"
    /\ polled' = TRUE
    /\ \/ /\ Raise("CalledProcessError")
          /\ NoteFailure("checks_query_failed")
          /\ UNCHANGED <<max_wait_minutes, elapsed, checks_found, check_runs,
                         success, failed_before>>
       \/ \E cr \in CheckRunLists, d \in Delays :
             /\ check_runs' = cr
             /\ IF Len(cr) > 0 /\ checks_all_completed(cr)
                THEN /\ success' = (checks_all_successful(cr) /\ ~failed_before)
                     /\ pc' = "checks_returned"
                     /\ IF has_failed_check(cr)
                        THEN NoteFailure("checks_failed")
                        ELSE UNCHANGED fail_cause
                     /\ UNCHANGED <<elapsed, failed_before>>
                ELSE /\ Tick(d)
                     /\ failed_before' = (failed_before \/ has_failed_check(cr))
                     /\ UNCHANGED <<success, pc, fail_cause>>
             /\ UNCHANGED <<max_wait_minutes, checks_found, exc, exit_code>>
    /\ UNCHANGED <<classifyVars, oracleVars, markVars, scanVars,
                   relHist,
                   inputVars, loopVars, gitVars, relVars,
                   attempted>>

\* One pass of the while True loop of lines 115-157.
ChecksCompletePoll ==
    /\ pc = "checks_complete"
    /\ polled' = TRUE
    /\ \/ /\ Raise("CalledProcessError")
          /\ NoteFailure("checks_query_failed")
          /\ UNCHANGED <<max_wait_minutes, elapsed, checks_found, check_runs,
                         success, failed_before>>
       \/ \E cr \in CheckRunLists, d \in Delays :
             /\ check_runs' = cr
             /\ IF Len(cr) > 0 /\ checks_all_completed(cr)
                THEN /\ success' = checks_all_successful(cr)
                     /\ pc' = "checks_returned"
                     /\ IF has_failed_check(cr)
                        THEN NoteFailure("checks_failed")
                        ELSE UNCHANGED fail_cause
                     /\ UNCHANGED <<elapsed, failed_before>>
                ELSE /\ Tick(d)
                     /\ failed_before' = (failed_before \/ has_failed_check(cr))
                     /\ UNCHANGED <<success, pc, fail_cause>>
             /\ UNCHANGED <<max_wait_minutes, checks_found, exc, exit_code>>
    /\ UNCHANGED <<classifyVars, oracleVars, markVars, scanVars,
                   relHist,
                   inputVars, loopVars, gitVars, relVars,
                   attempted>>

(***************************************************************************)
(* fix_issues.py: process_batch_rebuild and commit_and_push_changes        *)
(***************************************************************************)

\* Back in fix_issues after process_batch_* returned: the next pass of the
\* for loop of line 484 or 491.
ReturnToFixIssues ==
    /\ pc' = "next_batch"
    /\ batch_start' = batch_start + batch_rebuild

\* Lines 379-385: mark_package_for_rebuild for the k-th package.
MarkPackage ==
    /\ pc = "mark"
    /\ k <= Len(batch)
    /\ \/ \* the argfile.conf cannot be read or written
          /\ Raise("OSError")
          /\ NoteFailure("mark_failed")
          /\ UNCHANGED <<marked, k>>
       \/ /\ marked' = marked \cup {batch[k].package_name}
          /\ k' = k + 1
          /\ UNCHANGED <<pc, exc, exit_code, fail_cause>>
    /\ UNCHANGED <<classifyVars, oracleVars, failed_before, markVars, scanVars,
                   relHist,
                   inputVars, type_idx, batch_start, batch,
                   staged, commits, pushes, commit_sha, waitVars, relVars,
                   attempted>>

\* A plausible slip: staging starts as soon as one package is marked.
MarkDone_after_first ==
    /\ pc = "mark"
    /\ k > 1
    /\ pc' = "git_add"
    /\ k' = 1
    /\ UNCHANGED <<classifyVars, oracleVars, failed_before, markVars, scanVars,
                   relHist,
                   inputVars, type_idx, batch_start, batch,
                   gitVars, waitVars, relVars, attempted, fail_cause, exc,
                   exit_code>>

\* The marking loop is over: commit_and_push_changes is entered.
MarkDone ==
    /\ pc = "mark"
    /\ k > Len(batch)
    /\ pc' = "git_add"
    /\ k' = 1
    /\ UNCHANGED <<classifyVars, oracleVars, failed_before, markVars, scanVars,
                   relHist,
                   inputVars, type_idx, batch_start, batch,
                   gitVars, waitVars, relVars, attempted, fail_cause, exc,
                   exit_code>>

\* A plausible slip: only the first package's argfile.conf is staged.
GitAdd_first_only ==
    /\ pc = "git_add"
    /\ k <= Len(batch)
    /\ \/ /\ Raise("CalledProcessError")
          /\ NoteFailure("commit_failed")
          /\ UNCHANGED <<staged, k>>
       \/ /\ staged' = staged \cup {batch[k].package_name}
          /\ k' = Len(batch) + 1
          /\ UNCHANGED <<pc, exc, exit_code, fail_cause>>
    /\ UNCHANGED <<classifyVars, oracleVars, failed_before, markVars, scanVars,
                   relHist,
                   inputVars, type_idx, batch_start, batch,
                   marked, commits, pushes, commit_sha, waitVars, relVars,
                   attempted>>

\* Lines 52-54: git add of the k-th package's argfile.conf.
GitAdd ==
    /\ pc = "git_add"
    /\ k <= Len(batch)
    /\ \/ /\ Raise("CalledProcessError")
          /\ NoteFailure("commit_failed")
          /\ UNCHANGED <<staged, k>>
       \/ /\ staged' = staged \cup {batch[k].package_name}
          /\ k' = k + 1
          /\ UNCHANGED <<pc, exc, exit_code, fail_cause>>
    /\ UNCHANGED <<classifyVars, oracleVars, failed_before, markVars, scanVars,
                   relHist,
                   inputVars, type_idx, batch_start, batch,
                   marked, commits, pushes, commit_sha, waitVars, relVars,
                   attempted>>

\* Lines 57-61: git commit of what is staged.
GitCommit ==
    /\ pc = "git_add"
    /\ k > Len(batch)
    /\ \/ /\ Raise("CalledProcessError")
          /\ NoteFailure("commit_failed")
          /\ UNCHANGED <<staged, commits>>
       \/ /\ commits' = Append(commits, staged)
          /\ staged' = {}
          /\ pc' = "rev_parse"
          /\ UNCHANGED <<exc, exit_code, fail_cause>>
    /\ UNCHANGED <<classifyVars, oracleVars, failed_before, markVars, scanVars,
                   relHist,
                   inputVars, loopVars, marked, pushes,
                   commit_sha, waitVars, relVars, attempted>>

\* Lines 64-68: git rev-parse HEAD; a commit's id is its index in commits.
GitRevParse ==
    /\ pc = "rev_parse"
    /\ \/ /\ Raise("CalledProcessError")
          /\ NoteFailure("commit_failed")
          /\ UNCHANGED commit_sha
       \/ /\ commit_sha' = Len(commits)
          /\ pc' = "push"
          /\ UNCHANGED <<exc, exit_code, fail_cause>>
    /\ UNCHANGED <<classifyVars, oracleVars, failed_before, markVars, scanVars,
                   relHist,
                   inputVars, loopVars, marked, staged,
                   commits, pushes, waitVars, relVars, attempted>>

\* A plausible slip: the batch returns right after the push and the checks
\* of its commit are left running while the next batch starts.
GitPush_no_wait ==
    /\ pc = "push"
    /\ \/ /\ Raise("CalledProcessError")
          /\ NoteFailure("push_failed")
          /\ UNCHANGED <<pushes, batch_start>>
       \/ /\ pushes' = pushes \cup (1..Len(commits))
          /\ ReturnToFixIssues
          /\ UNCHANGED <<exc, exit_code, fail_cause>>
    /\ UNCHANGED <<classifyVars, oracleVars, failed_before, markVars, scanVars,
                   relHist, inputVars,
                   type_idx, batch, k, marked, staged, commits, commit_sha,
                   waitVars, relVars, attempted>>

\* A plausible slip: git push runs without check=True, so its failure goes
\* unnoticed and the wait for the checks starts.
GitPush_unchecked ==
    /\ pc = "push"
    /\ \/ /\ NoteFailure("push_failed")
          /\ UNCHANGED pushes
       \/ /\ pushes' = pushes \cup (1..Len(commits))
          /\ UNCHANGED fail_cause
    /\ EnterChecks
    /\ UNCHANGED <<classifyVars, oracleVars, failed_before, markVars, scanVars,
                   relHist, inputVars,
                   loopVars, marked, staged, commits, commit_sha, polled,
                   success, relVars, attempted, exc, exit_code>>

\* Line 71: git push, then line 399 enters wait_for_commit_checks.
GitPush ==
    /\ pc = "push"
    /\ \/ /\ Raise("CalledProcessError")
          /\ NoteFailure("push_failed")
          /\ UNCHANGED <<pushes, max_wait_minutes, elapsed, checks_found,
                         check_runs>>
       \/ /\ pushes' = pushes \cup (1..Len(commits))
          /\ EnterChecks
          /\ UNCHANGED <<exc, exit_code, fail_cause>>
    /\ UNCHANGED <<classifyVars, oracleVars, failed_before, markVars, scanVars,
                   relHist,
                   inputVars, loopVars, marked, staged,
                   commits, commit_sha, polled, success, relVars,
                   attempted>>

\* A plausible slip: the result of the wait is ignored.
RebuildAfterChecks_ignore_result ==
    /\ pc = "checks_returned"
    /\ ReturnToFixIssues
    /\ UNCHANGED <<classifyVars, oracleVars, failed_before, markVars, scanVars,
                   relHist,
                   inputVars, type_idx, batch, k, gitVars,
                   waitVars, relVars, attempted, fail_cause, exc, exit_code>>

\* Lines 400-404: the batch fails with typer.Exit(1) unless the wait
\* returned True.
RebuildAfterChecks ==
    /\ pc = "checks_returned"
    /\ IF success
       THEN /\ ReturnToFixIssues
            /\ UNCHANGED <<exc, exit_code>>
       ELSE /\ Raise("Exit")
            /\ UNCHANGED batch_start
    /\ UNCHANGED <<classifyVars, oracleVars, failed_before, markVars, scanVars,
                   relHist,
                   inputVars, type_idx, batch, k, gitVars,
                   waitVars, relVars, attempted, fail_cause>>

(***************************************************************************)
(* fix_issues.py: process_batch_release and wait_for_release_completion    *)
(***************************************************************************)

\* What the Released condition's reason reads, or the oc query fails.
ReleaseReasons == {"Succeeded", "Failed", "", "Progressing", Err}

\* A plausible slip: an unresolvable snapshot skips the record (continue)
\* instead of aborting the batch.
ReleaseResolve_skip_on_failure ==
    /\ pc = "rel_resolve"
    /\ k <= Len(batch)
    /\ \/ /\ NoteFailure("snapshot_not_found")
          /\ k' = k + 1
          /\ UNCHANGED <<snapshot_name, pc>>
       \/ /\ snapshot_name' = batch[k].package_name
          /\ pc' = "rel_create"
          /\ UNCHANGED <<fail_cause, k>>
    /\ UNCHANGED <<classifyVars, oracleVars, failed_before, markVars, scanVars,
                   relHist,
                   inputVars, type_idx, batch_start, batch,
                   gitVars, waitVars, releases_created, cluster_releases,
                   polled_releases, all_successful, attempted, exc,
                   exit_code>>

\* Lines 311-317: find_snapshot_for_commit_id for the k-th issue. A snapshot
\* is named after the package it was built from.
ReleaseResolve ==
    /\ pc = "rel_resolve"
    /\ k <= Len(batch)
    /\ \/ \* oc get snapshot fails (line 188)
          /\ Raise("CalledProcessError")
          /\ NoteFailure("snapshot_query_failed")
          /\ UNCHANGED snapshot_name
       \/ \* no snapshot found (line 193)
          /\ Raise("ValueError")
          /\ NoteFailure("snapshot_not_found")
          /\ UNCHANGED snapshot_name
       \/ /\ snapshot_name' = batch[k].package_name
          /\ pc' = "rel_create"
          /\ UNCHANGED <<exc, exit_code, fail_cause>>
    /\ UNCHANGED <<classifyVars, oracleVars, failed_before, markVars, scanVars,
                   relHist,
                   inputVars, loopVars, gitVars, waitVars,
                   releases_created, cluster_releases, polled_releases,
                   all_successful, attempted>>

\* A plausible slip: a failed oc create is logged and the loop goes on with
\* the next record (continue instead of raise).
ReleaseCreate_continue_on_failure ==
    /\ pc = "rel_create"
    /\ \/ /\ NoteFailure("release_create_failed")
          /\ k' = k + 1
          /\ pc' = "rel_resolve"
          /\ UNCHANGED <<releases_created, cluster_releases>>
       \/ /\ cluster_releases' = Append(cluster_releases, snapshot_name)
          /\ releases_created' =
                 Append(releases_created,
                        [package_name |-> batch[k].package_name,
                         release_name |-> Len(cluster_releases) + 1,
                         snapshot_name |-> snapshot_name])
          /\ k' = k + 1
          /\ pc' = "rel_resolve"
          /\ UNCHANGED fail_cause
    /\ UNCHANGED <<classifyVars, oracleVars, failed_before, markVars, scanVars,
                   relHist,
                   inputVars, type_idx, batch_start, batch,
                   gitVars, waitVars, snapshot_name, polled_releases,
                   all_successful, attempted, exc, exit_code>>

\* A plausible slip: when the name of the new release cannot be read, the
\* releases of the batch are deleted again before the error is raised.
ReleaseCreate_rollback ==
    /\ pc = "rel_create"
    /\ \/ /\ Raise("CalledProcessError")
          /\ NoteFailure("release_create_failed")
          /\ UNCHANGED <<releases_created, cluster_releases, k>>
       \/ /\ cluster_releases' =
                 SubSeq(cluster_releases, 1,
                        Len(cluster_releases) - Len(releases_created))
          /\ Raise("ValueError")
          /\ NoteFailure("release_create_failed")
          /\ UNCHANGED <<releases_created, k>>
       \/ /\ cluster_releases' = Append(cluster_releases, snapshot_name)
          /\ releases_created' =
                 Append(releases_created,
                        [package_name |-> batch[k].package_name,
                         release_name |-> Len(cluster_releases) + 1,
                         snapshot_name |-> snapshot_name])
          /\ k' = k + 1
          /\ pc' = "rel_resolve"
          /\ UNCHANGED <<exc, exit_code, fail_cause>>
    /\ UNCHANGED <<classifyVars, oracleVars, failed_before, markVars, scanVars,
                   relHist,
                   inputVars, type_idx, batch_start, batch,
                   gitVars, waitVars, snapshot_name, polled_releases,
                   all_successful, attempted>>

\* Lines 320-327: create_release_for_snapshot, then the append. The
\* generated release name is the number of the Release in the cluster.
ReleaseCreate ==
    /\ pc = "rel_create"
    /\ \/ \* oc create fails (line 231): nothing is created
          /\ Raise("CalledProcessError")
          /\ NoteFailure("release_create_failed")
          /\ UNCHANGED <<releases_created, cluster_releases, k>>
       \/ \* created, but the name is not in the output (line 243)
          /\ cluster_releases' = Append(cluster_releases, snapshot_name)
          /\ Raise("ValueError")
          /\ NoteFailure("release_create_failed")
          /\ UNCHANGED <<releases_created, k>>
       \/ /\ cluster_releases' = Append(cluster_releases, snapshot_name)
          /\ releases_created' =
                 Append(releases_created,
                        [package_name |-> batch[k].package_name,
                         release_name |-> Len(cluster_releases) + 1,
                         snapshot_name |-> snapshot_name])
          /\ k' = k + 1
          /\ pc' = "rel_resolve"
          /\ UNCHANGED <<exc, exit_code, fail_cause>>
    /\ UNCHANGED <<classifyVars, oracleVars, failed_before, markVars, scanVars,
                   relHist,
                   inputVars, type_idx, batch_start, batch,
                   gitVars, waitVars, snapshot_name, polled_releases,
                   all_successful, attempted>>

\* A plausible slip: the wait starts as soon as one release is created.
ReleaseWaitBegin_after_first ==
    /\ pc = "rel_resolve"
    /\ k > 1
    /\ all_successful' = TRUE
    /\ k' = 1
    /\ pc' = "rel_wait"
    /\ max_wait_minutes' = DefaultReleaseWait
    /\ elapsed' = 0
    /\ UNCHANGED <<classifyVars, oracleVars, failed_before, markVars, scanVars,
                   relHist,
                   inputVars, type_idx, batch_start, batch,
                   gitVars, checks_found, check_runs, polled, success,
                   snapshot_name, releases_created, cluster_releases,
                   polled_releases, attempted, fail_cause, exc, exit_code>>

\* Lines 336-342: phase 1 is over; the wait for the first release starts.
ReleaseWaitBegin ==
    /\ pc = "rel_resolve"
    /\ k > Len(batch)
    /\ all_successful' = TRUE
    /\ k' = 1
    /\ pc' = "rel_wait"
    /\ max_wait_minutes' = DefaultReleaseWait
    /\ elapsed' = 0
    /\ UNCHANGED <<classifyVars, oracleVars, failed_before, markVars, scanVars,
                   relHist,
                   inputVars, type_idx, batch_start, batch,
                   gitVars, checks_found, check_runs, polled, success,
                   snapshot_name, releases_created, cluster_releases,
                   polled_releases, attempted, fail_cause, exc, exit_code>>

\* A plausible slip: the wait is not wrapped in try/except, so a failed
\* status query leaves process_batch_release.
ReleasePoll_error_escapes ==
    /\ pc = "rel_wait"
    /\ k <= Len(releases_created)
    /\ elapsed < max_wait_minutes * 60
    /\ polled_releases' =
           polled_releases \cup {releases_created[k].release_name}
    /\ \E r \in ReleaseReasons, d \in Delays :
          /\ reason' = r
          /\ CASE r = Err ->
                   /\ Raise("CalledProcessError")
                   /\ NoteFailure("release_query_failed")
                   /\ UNCHANGED <<success, elapsed>>
               [] r = "Succeeded" ->
                   /\ pc' = "rel_returned"
                   /\ success' = TRUE
                   /\ UNCHANGED <<fail_cause, elapsed, exc, exit_code>>
               [] r = "Failed" ->
                   /\ pc' = "rel_returned"
                   /\ success' = FALSE
                   /\ NoteFailure("release_failed")
                   /\ UNCHANGED <<elapsed, exc, exit_code>>
               [] OTHER ->
                   /\ Tick(d)
                   /\ UNCHANGED <<pc, success, fail_cause, exc, exit_code>>
    /\ UNCHANGED <<classifyVars, oracleVars, failed_before, markVars,
                   scanVars, wait_results, inputVars, loopVars, gitVars,
                   max_wait_minutes, checks_found, check_runs, polled,
                   snapshot_name, releases_created, cluster_releases,
                   all_successful, attempted>>

\* One pass of the while loop of lines 262-283 for the k-th release.
ReleasePoll ==
    /\ pc = "rel_wait"
    /\ k <= Len(releases_created)
    /\ elapsed < max_wait_minutes * 60
    /\ polled_releases' =
           polled_releases \cup {releases_created[k].release_name}
    /\ \E r \in ReleaseReasons, d \in Delays :
          /\ reason' = r
          /\ CASE r = Err ->
                   /\ pc' = "rel_raised"
                   /\ NoteFailure("release_query_failed")
                   /\ UNCHANGED <<success, elapsed>>
               [] r = "Succeeded" ->
                   /\ pc' = "rel_returned"
                   /\ success' = TRUE
                   /\ UNCHANGED <<fail_cause, elapsed>>
               [] r = "Failed" ->
                   /\ pc' = "rel_returned"
                   /\ success' = FALSE
                   /\ NoteFailure("release_failed")
                   /\ UNCHANGED elapsed
               [] OTHER ->
                   /\ Tick(d)
                   /\ UNCHANGED <<pc, success, fail_cause>>
    /\ UNCHANGED <<classifyVars, oracleVars, failed_before, markVars, scanVars, wait_results, inputVars,
                   loopVars, gitVars,
                   max_wait_minutes, checks_found, check_runs, polled,
                   snapshot_name, releases_created, cluster_releases,
                   all_successful, attempted, exc, exit_code>>

\* A plausible slip: the end of the window is reported as a success.
ReleaseTimeout_returns_true ==
    /\ pc = "rel_wait"
    /\ k <= Len(releases_created)
    /\ elapsed >= max_wait_minutes * 60
    /\ pc' = "rel_returned"
    /\ success' = TRUE
    /\ UNCHANGED <<classifyVars, oracleVars, failed_before, markVars, scanVars,
                   relHist, inputVars,
                   loopVars, gitVars, max_wait_minutes, elapsed, checks_found,
                   check_runs, polled, relVars, attempted, fail_cause, exc,
                   exit_code>>

\* Lines 285-286: the window is over, the release counts as failed.
ReleaseTimeout ==
    /\ pc = "rel_wait"
    /\ k <= Len(releases_created)
    /\ elapsed >= max_wait_minutes * 60
    /\ pc' = "rel_returned"
    /\ success' = FALSE
    /\ NoteFailure("release_timed_out")
    /\ UNCHANGED <<classifyVars, oracleVars, failed_before, markVars, scanVars,
                   relHist,
                   inputVars, loopVars, gitVars,
                   max_wait_minutes, elapsed, checks_found, check_runs,
                   polled, relVars, attempted, exc, exit_code>>

\* A plausible slip: the loop of line 342 breaks at the first release that
\* did not succeed.
ReleaseAfterWait_stop_on_failure ==
    /\ pc \in {"rel_returned", "rel_raised"}
    /\ all_successful' = (all_successful /\ pc = "rel_returned" /\ success)
    /\ wait_results' = Append(wait_results, pc = "rel_returned" /\ success)
    /\ k' = IF all_successful' THEN k + 1 ELSE Len(releases_created) + 1
    /\ pc' = "rel_wait"
    /\ elapsed' = 0
    /\ reason' = NoneVal
    /\ UNCHANGED <<classifyVars, oracleVars, failed_before, markVars, scanVars, inputVars, type_idx,
                   batch_start, batch, gitVars, max_wait_minutes,
                   checks_found, check_runs, polled, success, snapshot_name,
                   releases_created, cluster_releases, polled_releases,
                   attempted, fail_cause, exc, exit_code>>

\* Lines 343-350: the outcome of one wait is folded into all_successful and
\* the loop goes on to the next release.
ReleaseAfterWait ==
    /\ pc \in {"rel_returned", "rel_raised"}
    /\ all_successful' = (all_successful /\ pc = "rel_returned" /\ success)
    /\ wait_results' = Append(wait_results, pc = "rel_returned" /\ success)
    /\ k' = k + 1
    /\ pc' = "rel_wait"
    /\ elapsed' = 0
    /\ reason' = NoneVal
    /\ UNCHANGED <<classifyVars, oracleVars, failed_before, markVars, scanVars, inputVars, type_idx,
                   batch_start, batch,
                   gitVars, max_wait_minutes, checks_found, check_runs,
                   polled, success, snapshot_name, releases_created,
                   cluster_releases, polled_releases, attempted, fail_cause,
                   exc, exit_code>>

\* A plausible slip: the batch's verdict is printed but not raised.
ReleaseFinish_no_exit ==
    /\ pc = "rel_wait"
    /\ k > Len(releases_created)
    /\ ReturnToFixIssues
    /\ UNCHANGED <<classifyVars, oracleVars, failed_before, markVars, scanVars,
                   relHist,
                   inputVars, type_idx, batch, k, gitVars,
                   waitVars, relVars, attempted, fail_cause, exc, exit_code>>

\* Lines 352-356: typer.Exit(1) unless every release succeeded.
ReleaseFinish ==
    /\ pc = "rel_wait"
    /\ k > Len(releases_created)
    /\ IF all_successful
       THEN /\ ReturnToFixIssues
            /\ UNCHANGED <<exc, exit_code>>
       ELSE /\ Raise("Exit")
            /\ UNCHANGED batch_start
    /\ UNCHANGED <<classifyVars, oracleVars, failed_before, markVars, scanVars,
                   relHist,
                   inputVars, type_idx, batch, k, gitVars,
                   waitVars, relVars, attempted, fail_cause>>

(***************************************************************************)
(* fix_issues.py: fix_issues                                               *)
(***************************************************************************)

MaxIssues == 2

MaxBatchSize == 2

\* typer accepts any integer for --batch-rebuild.
BatchSizes == -1..MaxBatchSize

IssueTypes == {"needs_rebuild", "needs_release", "unknown", "custom"}

\* The issues list of a report: a package is named by its position in the
\* list (find_issues writes the list sorted by package name).
Reports ==
    {[i \in 1..Len(ts) |-> [package_name |-> i, issue_type |-> ts[i]]] :
        ts \in SeqsUpTo(IssueTypes, MaxIssues)}

\* The report file: absent, not JSON, unreadable, JSON that is not an
\* object, an object without the issues key, or an object with it.
FileStates ==
    {"missing", "invalid_json", "unreadable", "not_an_object",
     "no_issues_key", "ok"}

\* The files that cannot be loaded as a report.
BadFiles == {"missing", "invalid_json", "unreadable", "not_an_object"}

\* A plausible slip: the types are dispatched in a fixed order, rebuilds
\* first, whatever the report's order.
types_fixed_order(iss) ==
    SelectSeq(<<"needs_rebuild", "needs_release", "unknown", "custom">>,
              LAMBDA t : \E i \in 1..Len(iss) : iss[i].issue_type = t)

\* The keys of issues_by_type in insertion order (lines 469-474).
RECURSIVE types_in_order(_)
types_in_order(iss) ==
    IF iss = <<>>
    THEN <<>>
    ELSE LET prev == types_in_order(SubSeq(iss, 1, Len(iss) - 1))
             t == iss[Len(iss)].issue_type
         IN  IF t \in Range(prev) THEN prev ELSE Append(prev, t)

\* issues_by_type[t] (lines 469-474).
type_issues(iss, t) == SelectSeq(iss, LAMBDA x : x.issue_type = t)

\* s[i:i + b] for a positive b.
Slice(s, i, b) == SubSeq(s, i + 1, Min(i + b, Len(s)))

\* A plausible slip: a file that cannot be loaded is taken for a report
\* without issues.
LoadReport_bad_file_as_empty ==
    /\ pc = "start"
    /\ \/ /\ \/ file_state \in BadFiles \cup {"no_issues_key"}
             \/ file_state = "ok" /\ issues = <<>>
          /\ pc' = "done"
          /\ exit_code' = 0
          /\ UNCHANGED <<exc, type_idx>>
       \/ /\ file_state = "ok"
          /\ issues # <<>>
          /\ pc' = "next_type"
          /\ type_idx' = 1
          /\ UNCHANGED <<exc, exit_code>>
    /\ UNCHANGED <<classifyVars, oracleVars, failed_before, markVars, scanVars,
                   relHist,
                   inputVars, batch_start, batch, k, gitVars,
                   waitVars, relVars, attempted, fail_cause>>

\* A plausible slip: data["issues"] instead of data.get("issues", None).
LoadReport_requires_issues_key ==
    /\ pc = "start"
    /\ \/ /\ file_state \in {"missing", "invalid_json", "unreadable"}
          /\ Raise("Exit")
          /\ UNCHANGED type_idx
       \/ /\ file_state = "not_an_object"
          /\ Raise("AttributeError")
          /\ UNCHANGED type_idx
       \/ /\ file_state = "no_issues_key"
          /\ Raise("KeyError")
          /\ UNCHANGED type_idx
       \/ /\ file_state = "ok" /\ issues = <<>>
          /\ pc' = "done"
          /\ exit_code' = 0
          /\ UNCHANGED <<exc, type_idx>>
       \/ /\ file_state = "ok"
          /\ issues # <<>>
          /\ pc' = "next_type"
          /\ type_idx' = 1
          /\ UNCHANGED <<exc, exit_code>>
    /\ UNCHANGED <<classifyVars, oracleVars, failed_before, markVars, scanVars,
                   relHist,
                   inputVars, batch_start, batch, k, gitVars,
                   waitVars, relVars, attempted, fail_cause>>

\* Lines 432-464: the file is loaded and the empty cases return. A missing
\* file (line 436), invalid JSON (line 452) and a read error (line 455) end
\* in typer.Exit(1); on JSON that is not an object data.get (line 458)
\* raises AttributeError.
LoadReport ==
    /\ pc = "start"
    /\ \/ /\ file_state \in {"missing", "invalid_json", "unreadable"}
          /\ Raise("Exit")
          /\ UNCHANGED type_idx
       \/ /\ file_state = "not_an_object"
          /\ Raise("AttributeError")
          /\ UNCHANGED type_idx
       \/ /\ \/ file_state = "no_issues_key"
             \/ file_state = "ok" /\ issues = <<>>
          /\ pc' = "done"
          /\ exit_code' = 0
          /\ UNCHANGED <<exc, type_idx>>
       \/ /\ file_state = "ok"
          /\ issues # <<>>
          /\ pc' = "next_type"
          /\ type_idx' = 1
          /\ UNCHANGED <<exc, exit_code>>
    /\ UNCHANGED <<classifyVars, oracleVars, failed_before, markVars, scanVars,
                   relHist,
                   inputVars, batch_start, batch, k, gitVars,
                   waitVars, relVars, attempted, fail_cause>>

\* A plausible slip: the final else of the dispatch treats every other type
\* as a release.
NextType_all_types_handled ==
    /\ pc = "next_type"
    /\ LET types == types_in_order(issues)
       IN  \/ /\ type_idx > Len(types)
              /\ pc' = "done"
              /\ exit_code' = 0
              /\ UNCHANGED <<exc, type_idx, batch_start>>
           \/ /\ type_idx <= Len(types)
              /\ IF batch_rebuild = 0
                 THEN /\ Raise("ValueError")
                      /\ UNCHANGED <<type_idx, batch_start>>
                 ELSE /\ pc' = "next_batch"
                      /\ batch_start' = 0
                      /\ UNCHANGED <<exc, exit_code, type_idx>>
    /\ UNCHANGED <<classifyVars, oracleVars, failed_before, markVars, scanVars,
                   relHist,
                   inputVars, batch, k, gitVars, waitVars,
                   relVars, attempted, fail_cause>>

\* One pass of the for loop of line 477, up to the batch loop of the type;
\* after the last type the function returns (line 504).
NextType ==
    /\ pc = "next_type"
    /\ LET types == types_in_order(issues)
       IN  \/ /\ type_idx > Len(types)
              /\ pc' = "done"
              /\ exit_code' = 0
              /\ UNCHANGED <<exc, type_idx, batch_start>>
           \/ /\ type_idx <= Len(types)
              /\ types[type_idx] \in {"needs_rebuild", "needs_release"}
              /\ IF batch_rebuild = 0
                 THEN \* range() refuses a step of zero
                      /\ Raise("ValueError")
                      /\ UNCHANGED <<type_idx, batch_start>>
                 ELSE /\ pc' = "next_batch"
                      /\ batch_start' = 0
                      /\ UNCHANGED <<exc, exit_code, type_idx>>
           \/ /\ type_idx <= Len(types)
              /\ types[type_idx] \notin {"needs_rebuild", "needs_release"}
              /\ type_idx' = type_idx + 1
              /\ UNCHANGED <<pc, exc, exit_code, batch_start>>
    /\ UNCHANGED <<classifyVars, oracleVars, failed_before, markVars, scanVars,
                   relHist,
                   inputVars, batch, k, gitVars, waitVars,
                   relVars, attempted, fail_cause>>

\* A plausible slip: the loop stops after the first batch of a type.
NextBatch_first_only ==
    /\ pc = "next_batch"
    /\ LET t == types_in_order(issues)[type_idx]
           group == type_issues(issues, t)
       IN  \/ /\ batch_start = 0
              /\ batch_rebuild > 0
              /\ batch' = Slice(group, batch_start, batch_rebuild)
              /\ attempted' = Append(attempted, [issue_type |-> t,
                                                 batch |-> batch'])
              /\ k' = 1
              /\ polled' = FALSE
              /\ failed_before' = FALSE
              /\ commit_sha' = 0
              /\ releases_created' = <<>>
              /\ polled_releases' = {}
              /\ pc' = IF t = "needs_rebuild" THEN "mark" ELSE "rel_resolve"
              /\ UNCHANGED type_idx
           \/ /\ ~(batch_start = 0 /\ batch_rebuild > 0)
              /\ type_idx' = type_idx + 1
              /\ pc' = "next_type"
              /\ UNCHANGED <<batch, k, polled, commit_sha, releases_created,
                             polled_releases, attempted, failed_before>>
    /\ UNCHANGED <<classifyVars, oracleVars, markVars, scanVars,
                   relHist,
                   inputVars, batch_start, marked, staged,
                   commits, pushes, max_wait_minutes, elapsed, checks_found,
                   check_runs, success, snapshot_name, cluster_releases,
                   all_successful, fail_cause, exc, exit_code>>

\* One pass of the for loop of line 484 or 491: the next batch is sliced
\* and handed to process_batch_rebuild or process_batch_release, whose
\* first lines are entered (a batch of the loop is never empty, so the
\* early returns of lines 301 and 371 are not taken).
NextBatch ==
    /\ pc = "next_batch"
    /\ LET t == types_in_order(issues)[type_idx]
           group == type_issues(issues, t)
       IN  \/ /\ batch_rebuild > 0
              /\ batch_start < Len(group)
              /\ batch' = Slice(group, batch_start, batch_rebuild)
              /\ attempted' = Append(attempted, [issue_type |-> t,
                                                 batch |-> batch'])
              /\ k' = 1
              /\ polled' = FALSE
              /\ failed_before' = FALSE
              /\ commit_sha' = 0
              /\ releases_created' = <<>>
              /\ polled_releases' = {}
              /\ wait_results' = <<>>
              /\ pc' = IF t = "needs_rebuild" THEN "mark" ELSE "rel_resolve"
              /\ UNCHANGED type_idx
           \/ /\ ~(batch_rebuild > 0 /\ batch_start < Len(group))
              /\ type_idx' = type_idx + 1
              /\ pc' = "next_type"
              /\ UNCHANGED <<batch, k, polled, commit_sha, releases_created,
                             polled_releases, attempted, wait_results,
                             failed_before>>
    /\ UNCHANGED <<classifyVars, oracleVars, markVars, scanVars, reason, inputVars,
                   batch_start, marked, staged,
                   commits, pushes, max_wait_minutes, elapsed, checks_found,
                   check_runs, success, snapshot_name, cluster_releases,
                   all_successful, fail_cause, exc, exit_code>>

\* The loops of lines 484 and 491 as fix_issues sees a call of
\* process_batch_rebuild or process_batch_release (whose steps are the
\* actions above): the call returns and the loop goes on.
ProcessBatchReturns ==
    /\ pc \in {"mark", "rel_resolve"}
    /\ ReturnToFixIssues
    /\ UNCHANGED <<classifyVars, oracleVars, failed_before, markVars, scanVars,
                   relHist, inputVars,
                   type_idx, batch, k, gitVars, waitVars, relVars, attempted,
                   fail_cause, exc, exit_code>>

\* The call raises (an exception of a step, or typer.Exit(1)), which leaves
\* fix_issues.
ProcessBatchRaises ==
    /\ pc \in {"mark", "rel_resolve"}
    /\ Raise("Exit")
    /\ NoteFailure("batch_failed")
    /\ UNCHANGED <<classifyVars, oracleVars, failed_before, markVars, scanVars,
                   relHist, inputVars,
                   loopVars, gitVars, waitVars, relVars, attempted>>

\* The longest issues list of a run in which only the loops are followed.
MaxReportLen == 4

BatchingReports ==
    {[i \in 1..Len(ts) |-> [package_name |-> i, issue_type |-> ts[i]]] :
        ts \in SeqsUpTo(IssueTypes, MaxReportLen)}

(***************************************************************************)
(* find_issues.py: the call of analyze_package                             *)
(***************************************************************************)

AnalyzePackage ==
    /\ result = NotRun
    /\ result' = analyze_package(env)
    /\ UNCHANGED <<env, runVars, markVars, scanVars, oracleVars>>

(***************************************************************************)
(* fix_issues.py: mark_package_for_rebuild on the text of argfile.conf     *)
(***************************************************************************)

\* The text of the file is a sequence of chunks: a newline, the marker
\* prefix "# Add comment to force rebuild", the ", <timestamp>" that line 35
\* puts after it, or any other text without a newline.
Chunk(c) == [c |-> c, t |-> 0]

Newline == Chunk("\n")

MarkerPrefix == Chunk("# Add comment to force rebuild")

OtherText == Chunk("x")

\* strftime("%Y-%m-%d %H:%M:%S+00:00") of line 34: the clock, to the second.
Stamp(t) == [c |-> ", <timestamp>", t |-> t]

MaxLen == 3

MaxClock == 1

MaxMarks == 2

\* What argfile.conf may hold before the first call.
Contents == SeqsUpTo({OtherText, Newline, MarkerPrefix}, MaxLen)

RECURSIVE splitlines_from(_, _, _, _)
splitlines_from(c, i, cur, acc) ==
    IF i > Len(c)
    THEN IF cur = <<>> THEN acc ELSE Append(acc, cur)
    ELSE IF c[i] = Newline
         THEN splitlines_from(c, i + 1, <<>>, Append(acc, cur))
         ELSE splitlines_from(c, i + 1, Append(cur, c[i]), acc)

\* str.splitlines() of line 30: a final newline opens no further line.
splitlines(c) == splitlines_from(c, 1, <<>>, <<>>)

\* str.startswith of line 31.
starts_with_marker(line) == Len(line) > 0 /\ line[1] = MarkerPrefix

\* A plausible slip: the old markers are not removed before the append.
keep_line_always(line) == TRUE

\* The filter of line 31.
keep_line(line) == ~starts_with_marker(line)

RECURSIVE join_lines(_)
\* "\n".join(lines) of line 39.
join_lines(ls) ==
    IF ls = <<>> THEN <<>>
    ELSE IF Len(ls) = 1 THEN ls[1]
    ELSE ls[1] \o <<Newline>> \o join_lines(Tail(ls))

\* Lines 29-39: the content written for the content read at second t.
mark_package_for_rebuild(content, t) ==
    LET lines == SelectSeq(splitlines(content), keep_line)
    IN  join_lines(Append(lines, <<MarkerPrefix, Stamp(t)>>)) \o <<Newline>>

\* One call of mark_package_for_rebuild: the file cannot be opened (open
\* of line 26 raises), or it is rewritten.
MarkCall ==
    /\ marks < MaxMarks
    /\ \/ /\ mark_raised' = TRUE
          /\ UNCHANGED <<argfile, marks>>
       \/ /\ argfile' = mark_package_for_rebuild(argfile, now)
          /\ marks' = marks + 1
          /\ mark_raised' = FALSE
    /\ UNCHANGED <<classifyVars, oracleVars, runVars, scanVars, argfile_orig, now>>

\* A second of the clock passes between two calls.
ClockTick ==
    /\ now < MaxClock
    /\ now' = now + 1
    /\ UNCHANGED <<classifyVars, oracleVars, runVars, scanVars, argfile, argfile_orig,
                   marks, mark_raised>>

(***************************************************************************)
(* find_issues.py: the concurrent scan of find_issues                      *)
(***************************************************************************)

MaxPackages == 3

MaxWorkers == 2

\* What a future holds once analyze_package ended: the issue_type of the
\* record it returned, or the exception it raised.
ScanOutcomes ==
    {IF r = Raised THEN Err ELSE r.issue_type :
         r \in {analyze_package(e) : e \in Envs}}

\* find_packages (lines 178-188) returns the directory names sorted; the
\* packages are named by their rank in that order.
PackageNames == 1..packages

TasksIn(st) == {p \in PackageNames : task[p] = st}

RECURSIVE insert_by_name(_, _)
insert_by_name(r, s) ==
    IF s = <<>> THEN <<r>>
    ELSE IF r.package_name < s[1].package_name THEN <<r>> \o s
    ELSE <<s[1]>> \o insert_by_name(r, Tail(s))

\* A plausible slip: the results are reported in the order collected.
sort_results_as_collected(rs) == rs

RECURSIVE sort_results(_)
\* results.sort(key=lambda x: x["package_name"]) of line 245.
sort_results(rs) ==
    IF rs = <<>> THEN <<>>
    ELSE insert_by_name(rs[Len(rs)], sort_results(SubSeq(rs, 1, Len(rs) - 1)))

NoReport == [state |-> "none"]

\* A plausible slip: issues_by_type counts the issues only, as its name
\* suggests, leaving no_issue out.
build_report_counts_issues_only(rs) ==
    LET all == sort_results(rs)
        iss == SelectSeq(all, LAMBDA r : r.issue_type # "no_issue")
    IN  [state |-> "built",
         total_packages |-> Len(all),
         packages_with_issues |-> Len(iss),
         issues_by_type |->
             [t \in {iss[i].issue_type : i \in 1..Len(iss)} |->
                  Len(SelectSeq(iss, LAMBDA r : r.issue_type = t))],
         issues |-> iss,
         all_packages |-> all]

\* Lines 245-263: output_data.
build_report(rs) ==
    LET all == sort_results(rs)
        iss == SelectSeq(all, LAMBDA r : r.issue_type # "no_issue")
    IN  [state |-> "built",
         total_packages |-> Len(all),
         packages_with_issues |-> Len(iss),
         issues_by_type |->
             [t \in {all[i].issue_type : i \in 1..Len(all)} |->
                  Len(SelectSeq(all, LAMBDA r : r.issue_type = t))],
         issues |-> iss,
         all_packages |-> all]

\* find_packages (lines 178-188) on the packages directory: BadParameter
\* when it does not exist, else its directories in sorted order.
find_packages ==
    IF ~dir_exists
    THEN [raised |-> "BadParameter", dirs |-> <<>>]
    ELSE [raised |-> "none", dirs |-> [i \in 1..packages |-> i]]

\* A plausible slip: find_issues does not look the directory up itself and
\* leaves the failure to find_packages, whose BadParameter is not an exit
\* with status 1.
ScanStart_no_dir_check ==
    /\ scan_pc = "start"
    /\ IF find_packages.raised # "none" \/ workers <= 0
       THEN /\ scan_pc' = "aborted"
            /\ UNCHANGED task
       ELSE /\ scan_pc' = "collect"
            /\ task' = [p \in PackageNames |-> "pending"]
    /\ UNCHANGED <<classifyVars, oracleVars, runVars, markVars, dir_exists, packages,
                   workers, task_result, results, report>>

\* Lines 218-236: the packages directory is looked up, the pool is made and
\* one future per package is submitted.
ScanStart ==
    /\ scan_pc = "start"
    /\ IF ~dir_exists
       THEN \* typer.Exit(1) of line 223
            /\ scan_pc' = "exit"
            /\ UNCHANGED task
       ELSE IF workers <= 0
       THEN \* ThreadPoolExecutor(max_workers=0) raises ValueError
            /\ scan_pc' = "aborted"
            /\ UNCHANGED task
       ELSE /\ scan_pc' = "collect"
            /\ task' = [p \in PackageNames |-> "pending"]
    /\ UNCHANGED <<classifyVars, oracleVars, runVars, markVars, dir_exists, packages,
                   workers, task_result, results, report>>

\* A plausible slip: a thread is started per future, whatever --workers.
WorkerStart_unbounded ==
    /\ scan_pc \in {"collect", "draining"}
    /\ TasksIn("pending") # {}
    /\ LET p == CHOOSE q \in TasksIn("pending") :
                    \A o \in TasksIn("pending") : q <= o
       IN  task' = [task EXCEPT ![p] = "running"]
    /\ UNCHANGED <<classifyVars, oracleVars, runVars, markVars, dir_exists, packages,
                   workers, scan_pc, task_result, results, report>>

\* A free worker thread takes the oldest pending future.
WorkerStart ==
    /\ scan_pc \in {"collect", "draining"}
    /\ TasksIn("pending") # {}
    /\ Cardinality(TasksIn("running")) < workers
    /\ LET p == CHOOSE q \in TasksIn("pending") :
                    \A o \in TasksIn("pending") : q <= o
       IN  task' = [task EXCEPT ![p] = "running"]
    /\ UNCHANGED <<classifyVars, oracleVars, runVars, markVars, dir_exists, packages,
                   workers, scan_pc, task_result, results, report>>

\* analyze_package ends in a worker thread, with a record or an exception.
WorkerFinish ==
    /\ scan_pc \in {"collect", "draining"}
    /\ \E p \in TasksIn("running"), o \in ScanOutcomes :
          /\ task' = [task EXCEPT ![p] = "finished"]
          /\ task_result' = [task_result EXCEPT ![p] = o]
    /\ UNCHANGED <<classifyVars, oracleVars, runVars, markVars, dir_exists, packages,
                   workers, scan_pc, results, report>>

\* One pass of the loop of lines 239-242: as_completed yields a finished
\* future and future.result() returns its record or raises its exception.
\* The exception leaves the loop; the with block then waits for the pool.
ScanCollect ==
    /\ scan_pc = "collect"
    /\ \E p \in TasksIn("finished") :
          /\ task' = [task EXCEPT ![p] = "collected"]
          /\ IF task_result[p] = Err
             THEN /\ scan_pc' = "draining"
                  /\ UNCHANGED results
             ELSE /\ results' = Append(results,
                                       [package_name |-> p,
                                        issue_type |-> task_result[p]])
                  /\ UNCHANGED scan_pc
    /\ UNCHANGED <<classifyVars, oracleVars, runVars, markVars, dir_exists, packages,
                   workers, task_result, report>>

\* The pool has shut down: the exception reaches the caller of find_issues.
ScanAbort ==
    /\ scan_pc = "draining"
    /\ TasksIn("pending") = {}
    /\ TasksIn("running") = {}
    /\ scan_pc' = "aborted"
    /\ UNCHANGED <<classifyVars, oracleVars, runVars, markVars, dir_exists, packages,
                   workers, task, task_result, results, report>>

\* Lines 245-282: every future was collected; the report is built.
ScanReport ==
    /\ scan_pc = "collect"
    /\ \A p \in PackageNames : task[p] = "collected"
    /\ report' = build_report(results)
    /\ scan_pc' = "built"
    /\ UNCHANGED <<classifyVars, oracleVars, runVars, markVars, dir_exists, packages,
                   workers, task, task_result, results>>

(***************************************************************************)
(* find_issues.py: index_version                                           *)
(***************************************************************************)

\* A string whose order matters is the sequence of its code points: "-" is
\* 45, "." is 46, "0" to "9" are 48 to 57, "p" is 112, "x" is 120.
Hyphen == <<45>>

\* The text of an anchor of the index page: its name without extension and
\* whether the extension is .tar.gz (else the pattern of line 63 skips it).
\* "p-1.9.tar.gz", "p-1.10.tar.gz", "p-x-2.0.tar.gz", "p.tar.gz" and
\* "p-1.9-x.whl".
LinkTexts ==
    {[name |-> <<112, 45, 49, 46, 57>>, targz |-> TRUE],
     [name |-> <<112, 45, 49, 46, 49, 48>>, targz |-> TRUE],
     [name |-> <<112, 45, 120, 45, 50, 46, 48>>, targz |-> TRUE],
     [name |-> <<112>>, targz |-> TRUE],
     [name |-> <<112, 45, 49, 46, 57, 45, 120>>, targz |-> FALSE]}

MaxLinks == 2

Pages == SeqsUpTo(LinkTexts, MaxLinks)

\* requests.get answers with a status code, or raises.
Response(code) == [raised |-> FALSE, code |-> code]

HttpOutcomes ==
    {Response(200), Response(404), Response(500), [raised |-> TRUE, code |-> 0]}

RECURSIVE split_from(_, _, _, _)
split_from(name, i, cur, acc) ==
    IF i > Len(name)
    THEN Append(acc, cur)
    ELSE IF <<name[i]>> = Hyphen
         THEN split_from(name, i + 1, <<>>, Append(acc, cur))
         ELSE split_from(name, i + 1, Append(cur, name[i]), acc)

\* filename.split("-") of line 75.
split(name) == split_from(name, 1, <<>>, <<>>)

RECURSIVE LexLess(_, _)
\* a < b for two Python strings: by code point, a prefix first.
LexLess(a, b) ==
    IF b = <<>> THEN FALSE
    ELSE IF a = <<>> THEN TRUE
    ELSE IF a[1] # b[1] THEN a[1] < b[1]
    ELSE LexLess(Tail(a), Tail(b))

\* The versions of lines 70-78, in page order: the last part of every
\* matched name that has more than one part.
page_versions(pg) ==
    LET matches == SelectSeq(pg, LAMBDA l : l.targz)
        parted == SelectSeq(matches, LAMBDA l : Len(split(l.name)) > 1)
    IN  [i \in 1..Len(parted) |->
            split(parted[i].name)[Len(split(parted[i].name))]]

\* A plausible slip: the last version listed is returned, without the sort.
latest_version_last_listed(vs) == vs[Len(vs)]

\* versions.sort(); versions[-1] of lines 82-83.
latest_version(vs) ==
    CHOOSE v \in Range(vs) : \A w \in Range(vs) : ~LexLess(v, w)

\* index_version (lines 46-85) for a response, or a failed request.
index_version(status, pg) ==
    IF status.raised THEN [kind |-> "raised", version |-> <<>>]
    ELSE IF status.code = 404 THEN [kind |-> "MISSING", version |-> <<>>]
    ELSE IF status.code # 200 THEN [kind |-> "None", version |-> <<>>]
    ELSE IF page_versions(pg) = <<>> THEN [kind |-> "None", version |-> <<>>]
    ELSE [kind |-> "version", version |-> latest_version(page_versions(pg))]

NotCalled == [kind |-> "not_called", version |-> <<>>]

\* The call of index_version.
IndexVersion ==
    /\ index_result = NotCalled
    /\ index_result' = index_version(http_status, page)
    /\ UNCHANGED <<classifyVars, runVars, markVars, scanVars, http_status,
                   page, manifest, version_result>>

(***************************************************************************)
(* find_issues.py: package_version                                         *)
(***************************************************************************)

\* requirements.txt is a sequence of tokens: the package's name as the
\* directory spells it ("name") or in another case ("NAME"), "==", a
\* version ("1.2.3", "4.5.6"), other text without whitespace or backslash
\* ("x"), a space, a backslash, a newline.
ManifestLines ==
    {<<>>,
     <<"name", "==", "1.2.3">>,
     <<"NAME", "==", "4.5.6", " ", "\\">>,
     <<"name", "==", "4.5.6", "\\">>,
     <<"x", "name", "==", "1.2.3">>,
     <<" ", "name", "==", "1.2.3">>,
     <<"name", "x", "==", "1.2.3">>,
     <<"x", "==", "4.5.6">>,
     <<"name", "==", " ", "1.2.3">>,
     <<"name", "==">>,
     <<"name", "==", "1.2.3", "x">>}

MaxLines == 2

ManifestFiles == SeqsUpTo(ManifestLines, MaxLines)

NoFile == [exists |-> FALSE, lines |-> <<>>]

Manifests ==
    {NoFile} \cup {[exists |-> TRUE, lines |-> ls] : ls \in ManifestFiles}

RECURSIVE file_text(_)
\* The content read at line 31: every line ends with a newline.
file_text(ls) ==
    IF ls = <<>> THEN <<>> ELSE ls[1] \o <<"\n">> \o file_text(Tail(ls))

\* [^\\\s] of the pattern of line 35.
version_char(c) == c \notin {" ", "\\", "\n"}

\* A plausible slip: the pattern has no ^, so it matches anywhere.
at_line_start_anywhere(content, i) == TRUE

\* ^ under re.MULTILINE: the start of the text or just after a newline.
at_line_start(content, i) == i = 1 \/ content[i - 1] = "\n"

\* The pattern of line 35 matches at position i: the name in any case,
\* "==" and at least one character of the group.
matches_at(content, i) ==
    /\ at_line_start(content, i)
    /\ i + 2 <= Len(content)
    /\ content[i] \in {"name", "NAME"}
    /\ content[i + 1] = "=="
    /\ version_char(content[i + 2])

RECURSIVE group_from(_, _)
\* group(1): the longest run of [^\\\s] from position i.
group_from(content, i) ==
    IF i > Len(content) \/ ~version_char(content[i])
    THEN <<>>
    ELSE <<content[i]>> \o group_from(content, i + 1)

RECURSIVE strip_trailing(_, _)
\* str.strip() and re.sub(r"\\+$", "") of lines 39-41 on the right end.
strip_trailing(v, drop) ==
    IF v # <<>> /\ v[Len(v)] \in drop
    THEN strip_trailing(SubSeq(v, 1, Len(v) - 1), drop)
    ELSE v

\* package_version (lines 22-43) for a requirements.txt, or none.
package_version(m) ==
    IF ~m.exists THEN [kind |-> "None", version |-> <<>>]
    ELSE LET content == file_text(m.lines)
             hits == {i \in 1..Len(content) : matches_at(content, i)}
         IN  IF hits = {} THEN [kind |-> "None", version |-> <<>>]
             ELSE LET first == CHOOSE i \in hits : \A j \in hits : i <= j
                      stripped ==
                          strip_trailing(group_from(content, first + 2),
                                         {" ", "\n"})
                  IN  [kind |-> "version",
                       version |->
                           strip_trailing(strip_trailing(stripped, {"\\"}),
                                          {" ", "\n"})]

\* The call of package_version.
PackageVersion ==
    /\ version_result = NotCalled
    /\ version_result' = package_version(manifest)
    /\ UNCHANGED <<classifyVars, runVars, markVars, scanVars, http_status,
                   page, index_result, manifest>>

(***************************************************************************)
(* Specifications                                                          *)
(***************************************************************************)

\* No call of index_version or package_version.
OracleIdle ==
    /\ http_status = Response(200)
    /\ page = <<>>
    /\ index_result = NotCalled
    /\ manifest = NoFile
    /\ version_result = NotCalled

IdleEnv == [package_name |-> "pkg", git_version |-> NoneVal,
            index_version |-> NoneVal, built_commit_id |-> NoneVal,
            commit_id |-> "", snapshot |-> NoneVal]

ClassifyIdle ==
    /\ env = IdleEnv
    /\ result = NotRun

\* Everything of a remediation run but its inputs and its position.
RunBlank ==
    /\ type_idx = 0
    /\ batch_start = 0
    /\ batch = <<>>
    /\ k = 0
    /\ marked = {}
    /\ staged = {}
    /\ commits = <<>>
    /\ pushes = {}
    /\ commit_sha = 0
    /\ elapsed = 0
    /\ checks_found = FALSE
    /\ check_runs = <<>>
    /\ polled = FALSE
    /\ success = FALSE
    /\ snapshot_name = 0
    /\ releases_created = <<>>
    /\ cluster_releases = <<>>
    /\ polled_releases = {}
    /\ all_successful = TRUE
    /\ attempted = <<>>
    /\ fail_cause = "none"
    /\ exc = "none"
    /\ exit_code = 0
    /\ reason = NoneVal
    /\ wait_results = <<>>
    /\ failed_before = FALSE

\* No call of mark_package_for_rebuild on a tracked file.
MarkIdle ==
    /\ argfile = <<>>
    /\ argfile_orig = <<>>
    /\ now = 0
    /\ marks = 0
    /\ mark_raised = FALSE

\* No scan of find_issues.
ScanIdle ==
    /\ dir_exists = FALSE
    /\ packages = 0
    /\ workers = 0
    /\ scan_pc = "idle"
    /\ task = <<>>
    /\ task_result = <<>>
    /\ results = <<>>
    /\ report = NoReport

\* A run of fix_issues on some report file with some batch size.
Init ==
    /\ ClassifyIdle
    /\ OracleIdle
    /\ RunBlank
    /\ MarkIdle
    /\ ScanIdle
    /\ pc = "start"
    /\ max_wait_minutes = 0
    /\ file_state \in FileStates
    /\ issues \in Reports
    /\ file_state # "ok" => issues = <<>>
    /\ batch_rebuild \in BatchSizes

Next ==
    \/ LoadReport
    \/ NextType
    \/ NextBatch
    \/ MarkPackage
    \/ MarkDone
    \/ GitAdd
    \/ GitCommit
    \/ GitRevParse
    \/ GitPush
    \/ ChecksAppearPoll
    \/ ChecksAppearTimeout
    \/ ChecksCompletePoll
    \/ RebuildAfterChecks
    \/ ReleaseResolve
    \/ ReleaseCreate
    \/ ReleaseWaitBegin
    \/ ReleasePoll
    \/ ReleaseTimeout
    \/ ReleaseAfterWait
    \/ ReleaseFinish

Spec == Init /\ [][Next]_vars

\* One call of wait_for_commit_checks, for some max_wait_minutes.
WaitMinutesChoices == {0, 1, DefaultChecksWait}

InitChecks ==
    /\ ClassifyIdle
    /\ OracleIdle
    /\ RunBlank
    /\ MarkIdle
    /\ ScanIdle
    /\ pc = "checks_appear"
    /\ file_state = "ok"
    /\ issues = <<>>
    /\ batch_rebuild = 1
    /\ max_wait_minutes \in WaitMinutesChoices

NextChecks ==
    \/ ChecksAppearPoll
    \/ ChecksAppearTimeout
    \/ ChecksCompletePoll

SpecChecks == InitChecks /\ [][NextChecks]_vars

\* One call of analyze_package, for every answer of the lookups.
InitClassify ==
    /\ env \in Envs
    /\ OracleIdle
    /\ result = NotRun
    /\ RunBlank
    /\ MarkIdle
    /\ ScanIdle
    /\ pc = "idle"
    /\ max_wait_minutes = 0
    /\ file_state = "ok"
    /\ issues = <<>>
    /\ batch_rebuild = 1

NextClassify == AnalyzePackage

SpecClassify == InitClassify /\ [][NextClassify]_vars

\* wait_for_commit_checks when the clock advances: a pass of a loop that
\* can be made is made.
SpecChecksFair ==
    /\ InitChecks
    /\ [][NextChecks]_vars
    /\ WF_vars(ChecksAppearPoll)
    /\ WF_vars(ChecksAppearTimeout)
    /\ WF_vars(ChecksCompletePoll)

\* The appearance loop of wait_for_commit_checks alone (lines 86-110), up
\* to its return or to the entry of the completion loop, when the clock
\* advances.
NextAppear ==
    \/ ChecksAppearPoll
    \/ ChecksAppearTimeout

SpecAppearFair ==
    /\ InitChecks
    /\ [][NextAppear]_vars
    /\ WF_vars(ChecksAppearPoll)
    /\ WF_vars(ChecksAppearTimeout)

\* One call of wait_for_release_completion, for some max_wait_minutes.
InitReleaseWait ==
    /\ ClassifyIdle
    /\ OracleIdle
    /\ MarkIdle
    /\ ScanIdle
    /\ type_idx = 1
    /\ batch_start = 0
    /\ batch = <<[package_name |-> 1, issue_type |-> "needs_release"]>>
    /\ k = 1
    /\ marked = {}
    /\ staged = {}
    /\ commits = <<>>
    /\ pushes = {}
    /\ commit_sha = 0
    /\ elapsed = 0
    /\ checks_found = FALSE
    /\ check_runs = <<>>
    /\ polled = FALSE
    /\ success = FALSE
    /\ snapshot_name = 1
    /\ releases_created = <<[package_name |-> 1, release_name |-> 1,
                             snapshot_name |-> 1]>>
    /\ cluster_releases = <<1>>
    /\ polled_releases = {}
    /\ all_successful = TRUE
    /\ attempted = <<>>
    /\ fail_cause = "none"
    /\ exc = "none"
    /\ exit_code = 0
    /\ reason = NoneVal
    /\ wait_results = <<>>
    /\ failed_before = FALSE
    /\ pc = "rel_wait"
    /\ file_state = "ok"
    /\ issues = batch
    /\ batch_rebuild = 1
    /\ max_wait_minutes \in {0, 1, DefaultReleaseWait}

NextReleaseWait ==
    \/ ReleasePoll
    \/ ReleaseTimeout

\* The clock advances: a pass of the loop that can be made is made.
SpecReleaseWait ==
    /\ InitReleaseWait
    /\ [][NextReleaseWait]_vars
    /\ WF_vars(ReleasePoll)
    /\ WF_vars(ReleaseTimeout)

\* Calls of mark_package_for_rebuild on one argfile.conf.
InitMark ==
    /\ ClassifyIdle
    /\ OracleIdle
    /\ RunBlank
    /\ ScanIdle
    /\ pc = "idle"
    /\ max_wait_minutes = 0
    /\ file_state = "ok"
    /\ issues = <<>>
    /\ batch_rebuild = 1
    /\ argfile \in Contents
    /\ argfile_orig = argfile
    /\ now = 0
    /\ marks = 0
    /\ mark_raised = FALSE

NextMark ==
    \/ MarkCall
    \/ ClockTick

SpecMark == InitMark /\ [][NextMark]_vars

\* One scan of find_issues, for some packages directory and --workers.
InitScan ==
    /\ ClassifyIdle
    /\ OracleIdle
    /\ RunBlank
    /\ MarkIdle
    /\ pc = "idle"
    /\ max_wait_minutes = 0
    /\ file_state = "ok"
    /\ issues = <<>>
    /\ batch_rebuild = 1
    /\ dir_exists \in BOOLEAN
    /\ packages \in 0..MaxPackages
    /\ ~dir_exists => packages = 0
    /\ workers \in 0..MaxWorkers
    /\ scan_pc = "start"
    /\ task = [p \in PackageNames |-> "unsubmitted"]
    /\ task_result = [p \in PackageNames |-> NoneVal]
    /\ results = <<>>
    /\ report = NoReport

NextScan ==
    \/ ScanStart
    \/ WorkerStart
    \/ WorkerFinish
    \/ ScanCollect
    \/ ScanAbort
    \/ ScanReport

SpecScan == InitScan /\ [][NextScan]_vars

\* A run of fix_issues followed through its loops only, on longer reports.
InitBatching ==
    /\ ClassifyIdle
    /\ OracleIdle
    /\ RunBlank
    /\ MarkIdle
    /\ ScanIdle
    /\ pc = "start"
    /\ max_wait_minutes = 0
    /\ file_state \in FileStates
    /\ issues \in BatchingReports
    /\ file_state # "ok" => issues = <<>>
    /\ batch_rebuild \in BatchSizes

NextBatching ==
    \/ LoadReport
    \/ NextType
    \/ NextBatch
    \/ ProcessBatchReturns
    \/ ProcessBatchRaises

SpecBatching == InitBatching /\ [][NextBatching]_vars

\* One call of index_version, for every answer of the index.
InitIndex ==
    /\ ClassifyIdle
    /\ RunBlank
    /\ MarkIdle
    /\ ScanIdle
    /\ pc = "idle"
    /\ max_wait_minutes = 0
    /\ file_state = "ok"
    /\ issues = <<>>
    /\ batch_rebuild = 1
    /\ http_status \in HttpOutcomes
    /\ page \in Pages
    /\ index_result = NotCalled
    /\ manifest = NoFile
    /\ version_result = NotCalled

NextIndex == IndexVersion

SpecIndex == InitIndex /\ [][NextIndex]_vars

\* One call of package_version, for every requirements.txt.
InitManifest ==
    /\ ClassifyIdle
    /\ RunBlank
    /\ MarkIdle
    /\ ScanIdle
    /\ pc = "idle"
    /\ max_wait_minutes = 0
    /\ file_state = "ok"
    /\ issues = <<>>
    /\ batch_rebuild = 1
    /\ http_status = Response(200)
    /\ page = <<>>
    /\ index_result = NotCalled
    /\ manifest \in Manifests
    /\ version_result = NotCalled

NextManifest == PackageVersion

SpecManifest == InitManifest /\ [][NextManifest]_vars

(***************************************************************************)
(* Properties of analyze_package (checked under SpecClassify)              *)
(***************************************************************************)

\* The three lookups every call makes all answered.
LookupsAnswered ==
    /\ result # NotRun
    /\ env.index_version # Err
    /\ env.built_commit_id # Err
    /\ env.commit_id # Err

\* C1: whenever the source version differs from the index version and the
\* built commit differs from the head commit, analyze_package returns a
\* record with issue_type needs_rebuild and action_needed rebuild, whatever
\* the snapshot lookup would answer (found, not found, or failing).
C1_CommitMismatchIsRebuild ==
    (/\ LookupsAnswered
     /\ env.git_version # env.index_version
     /\ env.built_commit_id # env.commit_id)
    => /\ result.state = "returned"
       /\ result.issue_type = "needs_rebuild"
       /\ result.action_needed = "rebuild"

\* C1 witness: a needs_rebuild record for a package whose snapshot exists.
C1_Witness ==
    /\ result.state = "returned"
    /\ result.git_version # result.index_version
    /\ result.built_commit_id # result.current_commit_id
    /\ env.snapshot = "pkg-abc123"
    /\ result.issue_type = "needs_rebuild"

\* C2: whenever the source version equals the index version (both absent
\* included), analyze_package returns a record with issue_type no_issue and
\* action_needed none, whatever the commits and the snapshot lookup are.
C2_EqualVersionsNoIssue ==
    (/\ LookupsAnswered
     /\ env.git_version = env.index_version)
    => /\ result.state = "returned"
       /\ result.issue_type = "no_issue"
       /\ result.action_needed = "none"

\* C2 witness: both versions absent, commits differing, a snapshot present.
C2_Witness ==
    /\ result.state = "returned"
    /\ result.git_version = NoneVal
    /\ result.index_version = NoneVal
    /\ result.built_commit_id # result.current_commit_id
    /\ env.snapshot = "pkg-abc123"
    /\ result.issue_type = "no_issue"

\* C3: whenever the versions differ, the built commit equals the head
\* commit and the snapshot lookup finds a snapshot, analyze_package returns
\* a record with issue_type needs_release, action_needed release and a
\* description that contains the snapshot's name.
C3_SnapshotFoundIsRelease ==
    (/\ LookupsAnswered
     /\ env.git_version # env.index_version
     /\ env.built_commit_id = env.commit_id
     /\ env.snapshot \notin {NoneVal, Err})
    => /\ result.state = "returned"
       /\ result.issue_type = "needs_release"
       /\ result.action_needed = "release"
       /\ env.snapshot \in Range(result.issue_description)

\* C3 witness: a needs_release record citing the snapshot.
C3_Witness ==
    /\ result.state = "returned"
    /\ result.built_commit_id = "abc123"
    /\ result.current_commit_id = "abc123"
    /\ result.issue_type = "needs_release"
    /\ "pkg-abc123" \in Range(result.issue_description)

\* C4: whenever the versions differ, the built commit equals the head
\* commit and the snapshot lookup finds nothing, analyze_package returns a
\* record with issue_type unknown and action_needed investigate.
C4_NoSnapshotIsUnknown ==
    (/\ LookupsAnswered
     /\ env.git_version # env.index_version
     /\ env.built_commit_id = env.commit_id
     /\ env.snapshot = NoneVal)
    => /\ result.state = "returned"
       /\ result.issue_type = "unknown"
       /\ result.action_needed = "investigate"

\* C4 witness: an unknown record for a built head commit without snapshot.
C4_Witness ==
    /\ result.state = "returned"
    /\ result.git_version = "1.2.4"
    /\ result.index_version = "1.2.3"
    /\ result.built_commit_id = result.current_commit_id
    /\ env.snapshot = NoneVal
    /\ result.issue_type = "unknown"

(***************************************************************************)
(* Properties of a fix_issues run (checked under Spec)                     *)
(***************************************************************************)

\* The packages of the report that need a rebuild or a release.
RemediablePackages ==
    {issues[i].package_name : i \in
        {j \in 1..Len(issues) :
            issues[j].issue_type \in {"needs_rebuild", "needs_release"}}}

\* The packages of the batches handed to a workflow so far.
AttemptedPackages ==
    UNION {{attempted[i].batch[j].package_name :
               j \in 1..Len(attempted[i].batch)} : i \in 1..Len(attempted)}

\* C5: when the run has ended, every batch of every issue type of the
\* report was attempted, also when an earlier batch failed (stated for the
\* batch sizes that partition the issues, batch_rebuild >= 1).
C5_EveryBatchAttempted ==
    (/\ pc = "done"
     /\ file_state = "ok"
     /\ batch_rebuild >= 1)
    => AttemptedPackages = RemediablePackages

\* The failures that make a batch fail: a failed marking, commit or push,
\* checks that never appear or conclude failure or cancelled, a failing
\* check-run query, an unresolvable snapshot, a release that cannot be
\* created, fails, times out or cannot be queried.
BatchFailures ==
    {"mark_failed", "commit_failed", "push_failed", "checks_never_appeared",
     "checks_failed", "checks_query_failed", "snapshot_not_found",
     "snapshot_query_failed", "release_create_failed", "release_failed",
     "release_timed_out", "release_query_failed"}

\* C6: when the run has ended and some batch of it failed, the exit status
\* of the run is not zero.
C6_FailedBatchNonZeroExit ==
    (pc = "done" /\ fail_cause \in BatchFailures) => exit_code # 0

\* C6 witness: a run that ended after a release of a batch timed out.
C6_Witness ==
    /\ pc = "done"
    /\ fail_cause = "release_timed_out"
    /\ Len(releases_created) > 0
    /\ exit_code = 1

SnapshotFailures == {"snapshot_not_found", "snapshot_query_failed"}

BatchPackagesReleased ==
    {j \in 1..Len(batch) : batch[j].package_name \in Range(cluster_releases)}

\* C7 as stated: once the snapshot of some package of a release batch
\* could not be resolved, no package of that batch has a release.
C7_NoReleaseInBatch ==
    fail_cause \in SnapshotFailures => BatchPackagesReleased = {}

\* C7 as amended: once the snapshot of the package at position k of a
\* release batch could not be resolved, exactly the packages before
\* position k have a release (none for position k or later), and no
\* release of the batch was polled.
C7_NoReleaseFromFailureOn ==
    fail_cause \in SnapshotFailures
    => /\ BatchPackagesReleased = 1..(k - 1)
       /\ polled_releases = {}
       /\ pc = "done"

\* C7 witness: the resolution failed at the second position of a batch
\* whose first package has its release.
C7_Witness ==
    /\ fail_cause = "snapshot_not_found"
    /\ Len(batch) = 2
    /\ k = 2
    /\ BatchPackagesReleased = {1}

\* C9: once the checks of a pushed rebuild batch have concluded with a
\* failure, the batch ends with typer.Exit(1) and the run exits with 1,
\* although every package was marked and the commit was pushed.
C9_FailedChecksFailBatch ==
    (/\ fail_cause = "checks_failed"
     /\ \E i \in 1..Len(check_runs) : check_runs[i].conclusion = "failure"
     /\ pc # "checks_returned")
    => /\ pc = "done"
       /\ exc = "Exit"
       /\ exit_code = 1
       /\ commit_sha \in pushes
       /\ \A j \in 1..Len(batch) : batch[j].package_name \in marked

\* C9 witness: a run ended by typer.Exit(1) after a pushed commit's checks
\* concluded failure.
C9_Witness ==
    /\ pc = "done"
    /\ exc = "Exit"
    /\ fail_cause = "checks_failed"
    /\ commit_sha \in pushes
    /\ \E i \in 1..Len(check_runs) : check_runs[i].conclusion = "failure"

(***************************************************************************)
(* Properties of wait_for_commit_checks (checked under SpecChecks)         *)
(***************************************************************************)

\* The function has returned from its completion phase.
ReturnedFromCompletion == pc = "checks_returned" /\ checks_found

\* C8: a return from the completion phase reports success exactly when
\* every check run of the returning poll has conclusion success.
C8_SuccessIffAllSuccess ==
    ReturnedFromCompletion
    => (success <=>
            \A i \in 1..Len(check_runs) : check_runs[i].conclusion = "success")

\* C10: a return from the completion phase, with either result, happens
\* only on a poll none of whose check runs is queued or in_progress.
C10_NoReturnWhileRunning ==
    ReturnedFromCompletion
    => /\ Len(check_runs) > 0
       /\ \A i \in 1..Len(check_runs) :
              check_runs[i].status \notin {"queued", "in_progress"}

\* C10 witness: past the appearance window, a completion poll saw one check
\* failed and another still running, and the function went on waiting.
C10_Witness ==
    /\ pc = "checks_complete"
    /\ elapsed > max_wait_minutes * 60
    /\ \E i \in 1..Len(check_runs) : check_runs[i].conclusion = "failure"
    /\ \E i \in 1..Len(check_runs) : check_runs[i].status = "in_progress"

(***************************************************************************)
(* The appearance phase of wait_for_commit_checks (under SpecAppearFair)   *)
(***************************************************************************)

\* The function returned from the appearance phase (lines 108-110).
ReturnedFromAppearance == pc = "checks_returned" /\ ~checks_found

\* C11: when no poll of the appearance window returned a check run, the
\* function returns False once the window is over and never enters the
\* completion phase, which is entered only after a poll found a check run;
\* and, the clock advancing, the appearance phase always ends.
C11_NoChecksReturnsFalse ==
    /\ [](ReturnedFromAppearance =>
             /\ success = FALSE
             /\ check_runs = <<>>
             /\ elapsed >= max_wait_minutes * 60)
    /\ [](pc = "checks_complete" => checks_found)
    /\ <>(pc # "checks_appear")

\* The default window went by with polls that found nothing.
C11_Witness ==
    /\ ReturnedFromAppearance
    /\ polled
    /\ max_wait_minutes = DefaultChecksWait
    /\ elapsed >= DefaultChecksWait * 60
    /\ success = FALSE

(***************************************************************************)
(* Commit and push of a rebuild batch (under Spec)                         *)
(***************************************************************************)

\* commit_and_push_changes failed: git add, commit, rev-parse or push.
CommitOrPushFailed == fail_cause \in {"commit_failed", "push_failed"}

\* C12: when the commit or the push of a rebuild batch fails, the batch
\* fails at once, the CalledProcessError ending the run with exit status 1,
\* and no check-run poll is issued for that batch.
C12_CommitPushFailureNoPoll ==
    CommitOrPushFailed =>
        /\ pc = "done"
        /\ exc = "CalledProcessError"
        /\ exit_code = 1
        /\ ~polled

\* The commit was made and its push failed.
C12_Witness ==
    /\ fail_cause = "push_failed"
    /\ pc = "done"
    /\ Len(commits) > 0
    /\ commit_sha = Len(commits)
    /\ ~polled

\* The packages of the current batch whose argfile.conf was rewritten.
MarkedInBatch == {batch[i].package_name : i \in 1..Len(batch)} \cap marked

\* The packages whose rewritten argfile.conf is in a pushed commit.
PushedPackages == UNION {commits[i] : i \in pushes}

\* C13: when the commit or the push of a rebuild batch fails, every package
\* of the batch whose argfile.conf was marked is in a pushed commit.
C13_MarkedImpliesPushed ==
    CommitOrPushFailed => MarkedInBatch \subseteq PushedPackages

(***************************************************************************)
(* mark_package_for_rebuild (under SpecMark)                               *)
(***************************************************************************)

\* The lines of a text that start with the marker prefix.
MarkerLines(c) ==
    {i \in 1..Len(splitlines(c)) : starts_with_marker(splitlines(c)[i])}

\* The other lines of a text, in order.
NonMarkerLines(c) ==
    SelectSeq(splitlines(c), LAMBDA l : ~starts_with_marker(l))

\* C14: after one or more calls of mark_package_for_rebuild the file holds
\* exactly one marker line, that line is the last one, and the lines before
\* it are the non-marker lines of the original content, in their order.
C14_OneMarkerLast ==
    marks >= 1 =>
        LET ls == splitlines(argfile)
        IN  /\ Len(ls) >= 1
            /\ MarkerLines(argfile) = {Len(ls)}
            /\ SubSeq(ls, 1, Len(ls) - 1) = NonMarkerLines(argfile_orig)
            /\ argfile[Len(argfile)] = Newline

\* Two calls on a file that held an old marker before another line.
C14_Witness ==
    /\ marks >= 2
    /\ argfile_orig = <<MarkerPrefix, Newline, OtherText>>
    /\ splitlines(argfile) = <<<<OtherText>>, <<MarkerPrefix, Stamp(now)>>>>

\* C15: every call of mark_package_for_rebuild that rewrites the file
\* leaves it with a content other than the one it read.
C15_EveryCallChangesContent ==
    [][marks' = marks + 1 => argfile' # argfile]_vars

(***************************************************************************)
(* Phase 2 of process_batch_release (under Spec)                           *)
(***************************************************************************)

\* The batch being processed is a batch of process_batch_release whose
\* releases were all created (line 336 was reached).
ReleasesAllCreated ==
    /\ Len(batch) > 0
    /\ Len(attempted) > 0
    /\ attempted[Len(attempted)].issue_type = "needs_release"
    /\ pc \in {"rel_wait", "rel_returned", "rel_raised", "next_batch", "done"}
    /\ Len(releases_created) = Len(batch)

\* The waits of the batch that ended with True.
AllWaitsSucceeded == \A i \in 1..Len(wait_results) : wait_results[i]

\* C16: once every release of a batch is created, the waits are made in
\* order, one per release, whatever the earlier ones returned: the batch
\* returns to fix_issues only after every release was waited for and
\* succeeded, and it fails with typer.Exit(1) only after every release was
\* waited for and some wait did not succeed.
C16_AllWaitedThenVerdict ==
    ReleasesAllCreated =>
        CASE pc = "rel_wait" ->
                 /\ Len(wait_results) = k - 1
                 /\ all_successful = AllWaitsSucceeded
          [] pc = "next_batch" \/ (pc = "done" /\ exc = "none") ->
                 /\ Len(wait_results) = Len(releases_created)
                 /\ AllWaitsSucceeded
          [] pc = "done" /\ exc # "none" ->
                 /\ exc = "Exit"
                 /\ Len(wait_results) = Len(releases_created)
                 /\ ~AllWaitsSucceeded
          [] OTHER -> TRUE

\* The first release of a batch of two failed, the second one was still
\* waited for and succeeded, and the batch was reported failed.
C16_Witness ==
    /\ ReleasesAllCreated
    /\ pc = "done"
    /\ exc = "Exit"
    /\ wait_results = <<FALSE, TRUE>>
    /\ polled_releases = {releases_created[1].release_name,
                          releases_created[2].release_name}

(***************************************************************************)
(* wait_for_release_completion (under SpecReleaseWait)                     *)
(***************************************************************************)

\* The window of line 262 is over.
ReleaseWindowOver == elapsed >= max_wait_minutes * 60

\* C17: the clock advancing, wait_for_release_completion always ends; it
\* returns True only on a poll that read Succeeded, False on a poll that
\* read Failed, and otherwise False only once the window is over.
C17_ReleaseWaitEnds ==
    /\ [](pc = "rel_returned" =>
             /\ success <=> reason = "Succeeded"
             /\ ~success =>
                    \/ reason = "Failed"
                    \/ ReleaseWindowOver)
    /\ <>(pc \in {"rel_returned", "rel_raised"})

\* The default window went by with polls that read Progressing.
C17_Witness ==
    /\ pc = "rel_returned"
    /\ ~success
    /\ reason = "Progressing"
    /\ max_wait_minutes = DefaultReleaseWait
    /\ ReleaseWindowOver
    /\ polled_releases = {1}

(***************************************************************************)
(* The scan of find_issues (under SpecScan)                                *)
(***************************************************************************)

\* A list of records is in ascending order of package_name.
SortedByName(rs) ==
    \A i \in 1..Len(rs) - 1 : rs[i].package_name < rs[i + 1].package_name

\* The packages classified no_issue in the report.
NoIssueCount ==
    Len(SelectSeq(report.all_packages, LAMBDA r : r.issue_type = "no_issue"))

\* C18: whatever the order in which the classifications complete, the
\* report lists all_packages and issues in ascending order of package name,
\* and the issues and the no_issue packages add up to the N packages.
C18_ReportSortedAndComplete ==
    scan_pc = "built" =>
        /\ SortedByName(report.all_packages)
        /\ SortedByName(report.issues)
        /\ Len(report.all_packages) = packages
        /\ Len(report.issues) + NoIssueCount = packages
        /\ report.total_packages = packages
        /\ report.packages_with_issues = Len(report.issues)

\* Three packages were collected last first, with and without issues.
C18_Witness ==
    /\ scan_pc = "built"
    /\ packages = 3
    /\ results[1].package_name = 3
    /\ results[3].package_name = 1
    /\ report.packages_with_issues = 2

\* The scan is over: the report is built or the exception left find_issues.
ScanOver == scan_pc \in {"built", "aborted"} /\ dir_exists /\ workers > 0

\* The packages whose classification raised.
RaisedPackages == {p \in PackageNames : task_result[p] = Err}

\* C19: when the classification of some package raised, the scan still
\* ends with a report that holds every other package.
C19_RaiseDoesNotAbortScan ==
    ScanOver /\ RaisedPackages # {} =>
        /\ scan_pc = "built"
        /\ \A p \in PackageNames \ RaisedPackages :
               \E i \in 1..Len(report.all_packages) :
                   report.all_packages[i].package_name = p

(***************************************************************************)
(* Failed lookups of analyze_package (under SpecClassify)                  *)
(***************************************************************************)

\* A lookup that analyze_package made failed.
LookupFailed ==
    \/ env.index_version = Err
    \/ env.built_commit_id = Err
    \/ env.commit_id = Err
    \/ /\ env.git_version # env.index_version
       /\ env.built_commit_id = env.commit_id
       /\ env.snapshot = Err

\* C20: when a lookup failed, analyze_package still returns a record, in
\* which the failed lookup reads None.
C20_FailedLookupYieldsNone ==
    result # NotRun /\ LookupFailed =>
        /\ result.state = "returned"
        /\ env.index_version = Err => result.index_version = NoneVal
        /\ env.built_commit_id = Err => result.built_commit_id = NoneVal
        /\ env.commit_id = Err => result.current_commit_id = NoneVal

(***************************************************************************)
(* The batches of fix_issues (under SpecBatching)                          *)
(***************************************************************************)

\* The batches handed to a workflow so far for the issues of type t.
BatchesOf(t) ==
    SelectSeq(attempted, LAMBDA a : a.issue_type = t)

RECURSIVE Concat(_)
\* The batches of a sequence of attempts, one after the other.
Concat(as) ==
    IF as = <<>> THEN <<>> ELSE as[1].batch \o Concat(Tail(as))

\* ceil(n / b) for b >= 1.
CeilDiv(n, b) == (n + b - 1) \div b

\* The loop over the batches of type t is over.
GroupDone(t) ==
    \/ pc = "done" /\ exc = "none"
    \/ /\ pc \in {"next_type", "next_batch"}
       /\ \E i \in 1..Len(types_in_order(issues)) :
              types_in_order(issues)[i] = t /\ i < type_idx

\* C21: for batch size b >= 1 the batches of a group of n issues are
\* contiguous slices of the group taken in order: each has at most b issues,
\* every one but the last has exactly b, together they are the group up to
\* the batch reached, and once the loop over the group is over there were
\* ceil(n / b) of them and together they are the whole group.
C21_BatchesPartitionGroup ==
    batch_rebuild >= 1 =>
        \A t \in {"needs_rebuild", "needs_release"} :
            LET group == type_issues(issues, t)
                bs == BatchesOf(t)
                all == Concat(bs)
            IN  /\ Len(all) <= Len(group)
                /\ all = SubSeq(group, 1, Len(all))
                /\ \A i \in 1..Len(bs) :
                       /\ Len(bs[i].batch) >= 1
                       /\ Len(bs[i].batch) <= batch_rebuild
                       /\ i < Len(bs) => Len(bs[i].batch) = batch_rebuild
                       /\ Len(bs[i].batch) < batch_rebuild =>
                              Len(all) = Len(group)
                /\ GroupDone(t) =>
                       /\ all = group
                       /\ Len(bs) = CeilDiv(Len(group), batch_rebuild)

\* Three issues of one type with batch size 2: batches of 2 and 1.
C21_Witness ==
    /\ pc = "done"
    /\ exc = "none"
    /\ batch_rebuild = 2
    /\ Len(type_issues(issues, "needs_rebuild")) = 3
    /\ Len(BatchesOf("needs_rebuild")) = 2
    /\ Len(attempted[1].batch) = 2
    /\ Len(attempted[Len(attempted)].batch) = 1

(***************************************************************************)
(* Issue types without a workflow (under Spec)                             *)
(***************************************************************************)

\* The packages of the report whose issue type has no workflow.
UnhandledPackages ==
    {issues[i].package_name : i \in
        {j \in 1..Len(issues) :
            issues[j].issue_type \notin {"needs_rebuild", "needs_release"}}}

\* The packages some remediation step has touched: marked, staged,
\* committed, resolved to a snapshot, released, or in a batch handed over.
TouchedPackages ==
    marked \cup staged \cup UNION Range(commits) \cup Range(cluster_releases)
        \cup {releases_created[i].package_name :
                  i \in 1..Len(releases_created)}
        \cup AttemptedPackages

\* C22: no remediation step ever touches an issue whose type is neither
\* needs_rebuild nor needs_release, and the run fails only for a reason of
\* its own: a report file that cannot be loaded, a failure of a workflow
\* step, or the batch size 0 met by a rebuild or release group.
C22_UnhandledTypesUntouched ==
    /\ UnhandledPackages \cap TouchedPackages = {}
    /\ (pc = "done" /\ exit_code # 0) =>
           \/ file_state # "ok"
           \/ fail_cause # "none"
           \/ batch_rebuild = 0 /\ RemediablePackages # {}

\* A rebuild went through and the unknown issue after it was only reported.
C22_Witness ==
    /\ pc = "done"
    /\ exit_code = 0
    /\ Len(issues) = 2
    /\ issues[2].issue_type = "unknown"
    /\ marked = {1}
    /\ pushes # {}

(***************************************************************************)
(* The order of the batches (under SpecBatching)                           *)
(***************************************************************************)

\* The position in the report of the first issue of type t.
FirstIndex(t) ==
    CHOOSE i \in 1..Len(issues) :
        /\ issues[i].issue_type = t
        /\ \A j \in 1..(i - 1) : issues[j].issue_type # t

\* The issues handed to a workflow so far, in the order handed over.
AttemptedIssues == Concat(attempted)

\* C23: the issues are handed to the workflows type by type, the types in
\* the order of their first occurrence in the report and the issues of a
\* type in report order (a package is named by its position in the
\* report); each batch is one of the batches in that order, none is handed
\* over twice.
C23_BatchesInReportOrder ==
    \A i, j \in 1..Len(AttemptedIssues) :
        i < j =>
            LET a == AttemptedIssues[i]
                b == AttemptedIssues[j]
            IN  /\ a \in Range(issues)
                /\ b \in Range(issues)
                /\ IF a.issue_type = b.issue_type
                   THEN a.package_name < b.package_name
                   ELSE FirstIndex(a.issue_type) < FirstIndex(b.issue_type)

\* A release listed first, then a rebuild, then a second release: both
\* releases were handed over before the rebuild.
C23_Witness ==
    /\ pc = "done"
    /\ exc = "none"
    /\ batch_rebuild = 1
    /\ Len(issues) = 3
    /\ issues[1].issue_type = "needs_release"
    /\ issues[2].issue_type = "needs_rebuild"
    /\ issues[3].issue_type = "needs_release"
    /\ Len(attempted) = 3
    /\ attempted[2].batch[1].package_name = 3
    /\ attempted[3].issue_type = "needs_rebuild"

(***************************************************************************)
(* One batch at a time (under Spec)                                        *)
(***************************************************************************)

\* The packages of the batch being processed.
BatchPackages == {batch[i].package_name : i \in 1..Len(batch)}

\* The last batch handed to a workflow reached its outcome and returned:
\* a rebuild batch has its commit pushed and its checks all completed and
\* successful, a release batch has every release created, waited for and
\* succeeded.
LastBatchReturned ==
    \/ attempted = <<>>
    \/ /\ attempted # <<>>
       /\ attempted[Len(attempted)].batch = batch
       /\ IF attempted[Len(attempted)].issue_type = "needs_rebuild"
          THEN /\ BatchPackages \subseteq marked
               /\ commit_sha = Len(commits)
               /\ commit_sha \in pushes
               /\ BatchPackages \subseteq commits[commit_sha]
               /\ checks_found
               /\ Len(check_runs) > 0
               /\ checks_all_completed(check_runs)
               /\ success
          ELSE /\ Len(releases_created) = Len(batch)
               /\ Len(wait_results) = Len(batch)
               /\ AllWaitsSucceeded

\* A step of a workflow: it marks, stages, commits, pushes, creates a
\* release or polls.
WorkflowStep ==
    \/ marked' # marked
    \/ staged' # staged
    \/ commits' # commits
    \/ pushes' # pushes
    \/ cluster_releases' # cluster_releases
    \/ polled_releases' \ polled_releases # {}
    \/ polled' /\ ~polled
    \/ check_runs' # check_runs

\* C24: a batch is handed to a workflow only when the batch before it has
\* reached its outcome and returned, and every step of a workflow is a
\* step of the one batch handed over last: what it marks, stages or
\* releases are packages of that batch.
C24_OneBatchInFlight ==
    [][/\ Len(attempted') > Len(attempted) =>
             /\ pc = "next_batch"
             /\ LastBatchReturned
       /\ WorkflowStep =>
             /\ attempted # <<>>
             /\ attempted' = attempted
             /\ batch' = batch
             /\ attempted[Len(attempted)].batch = batch
             /\ (marked' \ marked) \subseteq BatchPackages
             /\ (staged' \ staged) \subseteq BatchPackages
             /\ Len(cluster_releases') > Len(cluster_releases) =>
                    cluster_releases'[Len(cluster_releases')]
                        \in BatchPackages]_vars

\* The second rebuild batch of a run is about to be pushed; the commit of
\* the first one is pushed and its checks have succeeded.
C24_Witness ==
    /\ pc = "push"
    /\ Len(attempted) = 2
    /\ attempted[1].issue_type = "needs_rebuild"
    /\ marked = {1, 2}
    /\ pushes = {1}
    /\ Len(commits) = 2
    /\ success

(***************************************************************************)
(* The worker pool of find_issues (under SpecScan)                         *)
(***************************************************************************)

\* How far a future has come.
TaskRank(st) ==
    CASE st = "unsubmitted" -> 0
      [] st = "pending" -> 1
      [] st = "running" -> 2
      [] st = "finished" -> 3
      [] st = "collected" -> 4

\* How often a package is listed in all_packages.
TimesReported(p) ==
    Cardinality({i \in 1..Len(report.all_packages) :
                    report.all_packages[i].package_name = p})

\* C25: at no time are more than `workers` calls of analyze_package
\* running; a call for a package starts once, from the queue, and is never
\* started again; and a report that is built lists every package found
\* exactly once, each one classified by a call that ended.
C25_BoundedPoolEachOnce ==
    /\ [](Cardinality(TasksIn("running")) <= workers)
    /\ [][\A p \in PackageNames :
             /\ TaskRank(task'[p]) >= TaskRank(task[p])
             /\ (task'[p] = "running" /\ task[p] # "running") =>
                    task[p] = "pending"]_vars
    /\ [](scan_pc = "built" =>
             \A p \in PackageNames :
                 /\ task[p] = "collected"
                 /\ task_result[p] # NoneVal
                 /\ TimesReported(p) = 1)

\* The pool is full while a package still waits in the queue.
C25_Witness ==
    /\ scan_pc = "collect"
    /\ workers = MaxWorkers
    /\ Cardinality(TasksIn("running")) = workers
    /\ TasksIn("pending") # {}

(***************************************************************************)
(* A missing packages directory (under SpecScan)                           *)
(***************************************************************************)

\* C26: when the packages directory does not exist, find_packages raises
\* BadParameter and find_issues ends at once with typer.Exit(1): no future
\* is submitted, no result is collected and no report is built.
C26_MissingDirFailsFast ==
    ~dir_exists =>
        /\ find_packages.raised = "BadParameter"
        /\ scan_pc \in {"start", "exit"}
        /\ \A p \in DOMAIN task : task[p] = "unsubmitted"
        /\ results = <<>>
        /\ report = NoReport

\* The scan of a path without a packages directory has exited.
C26_Witness ==
    /\ ~dir_exists
    /\ scan_pc = "exit"
    /\ workers = MaxWorkers
    /\ report = NoReport

(***************************************************************************)
(* Loading the report (under Spec)                                         *)
(***************************************************************************)

\* No remediation action was performed in the run.
NothingRemediated ==
    /\ marked = {}
    /\ staged = {}
    /\ commits = <<>>
    /\ pushes = {}
    /\ cluster_releases = <<>>
    /\ releases_created = <<>>
    /\ attempted = <<>>
    /\ ~polled
    /\ polled_releases = {}

EmptyReport ==
    \/ file_state = "no_issues_key"
    \/ file_state = "ok" /\ issues = <<>>

\* C28: when the loaded report has no issues key or an empty issues list,
\* the run performs no remediation action and ends with exit status 0,
\* whatever the batch size.
C28_EmptyReportExitsZero ==
    EmptyReport =>
        /\ NothingRemediated
        /\ pc \in {"start", "done"}
        /\ pc = "done" => exit_code = 0 /\ exc = "none"

\* The run on a report without the issues key has ended, with the batch
\* size that range() would refuse.
C28_Witness ==
    /\ file_state = "no_issues_key"
    /\ batch_rebuild = 0
    /\ pc = "done"
    /\ exit_code = 0

\* The archive names of the page: the anchor texts that end in .tar.gz.
ArchiveNames(pg) == {pg[i].name : i \in {j \in 1..Len(pg) : pg[j].targz}}

\* The text of an archive name after its last hyphen.
AfterLastHyphen(name) ==
    LET hyphens == {h \in 1..Len(name) : <<name[h]>> = Hyphen}
        last == CHOOSE h \in hyphens : \A j \in hyphens : j <= h
    IN  SubSeq(name, last + 1, Len(name))

\* The versions the page offers: one for every archive name with a hyphen.
Candidates(pg) ==
    {AfterLastHyphen(n) :
        n \in {m \in ArchiveNames(pg) :
                  \E h \in 1..Len(m) : <<m[h]>> = Hyphen}}

HasPrefix(l) == Len(l) >= 2 /\ l[1] \in {"name", "NAME"} /\ l[2] = "=="

\* The line pins a version: the prefix is followed at once by a character
\* that is neither whitespace nor a backslash.
PinsVersion(l) == HasPrefix(l) /\ Len(l) >= 3 /\ l[3] \notin {" ", "\\"}

\* The text of the line after "==" up to the first whitespace or backslash.
PinnedVersion(l) ==
    LET rest == SubSeq(l, 3, Len(l))
        stops == {i \in 1..Len(rest) : rest[i] \in {" ", "\\"}}
        n == IF stops = {}
             THEN Len(rest)
             ELSE (CHOOSE i \in stops : \A j \in stops : i <= j) - 1
    IN  SubSeq(rest, 1, n)

\* The text of the line after "==" without the whitespace and backslashes
\* at its two ends.
TrimmedRest(l) ==
    LET rest == SubSeq(l, 3, Len(l))
        solid == {i \in 1..Len(rest) : rest[i] \notin {" ", "\\"}}
    IN  IF solid = {}
        THEN <<>>
        ELSE SubSeq(rest, CHOOSE i \in solid : \A j \in solid : i <= j,
                    CHOOSE i \in solid : \A j \in solid : j <= i)

\* The first line of the sequence that satisfies the test, given one does.
FirstLine(ls, Test(_)) ==
    ls[CHOOSE i \in 1..Len(ls) :
           Test(ls[i]) /\ \A j \in 1..(i - 1) : ~Test(ls[j])]

\* C30 as stated: package_version returns the version of the first line
\* that starts with the name (in any case) and "==", without the backslash
\* and whitespace around it, and None when the file is absent or no line
\* starts with that prefix.
C30_FirstPrefixedLine ==
    version_result # NotCalled =>
        IF manifest.exists /\ \E i \in 1..Len(manifest.lines) :
                                  HasPrefix(manifest.lines[i])
        THEN version_result =
                 [kind |-> "version",
                  version |-> TrimmedRest(FirstLine(manifest.lines, HasPrefix))]
        ELSE version_result.kind = "None"

\* C30, amended: package_version returns the version of the first line
\* that starts, at column 0 and in any case, with the name and "==" followed
\* at once by a character that is neither whitespace nor a backslash; the
\* version is the text after "==" up to the first whitespace or backslash.
\* A line where whitespace, a backslash or the line's end follows "==" is
\* passed over like any other line. The result is None when the file is
\* absent or no line pins a version so, and the name in the middle of a line
\* never matches.
C30_FirstPinnedLine ==
    version_result # NotCalled =>
        IF manifest.exists /\ \E i \in 1..Len(manifest.lines) :
                                  PinsVersion(manifest.lines[i])
        THEN version_result =
                 [kind |-> "version",
                  version |->
                      PinnedVersion(FirstLine(manifest.lines, PinsVersion))]
        ELSE version_result.kind = "None"

\* The first line has a space after "==" and is passed over; the second, in
\* another case and with a continuation backslash, gives the version.
C30_Witness ==
    /\ manifest.exists
    /\ manifest.lines = << <<"name", "==", " ", "1.2.3">>,
                           <<"NAME", "==", "4.5.6", " ", "\\">> >>
    /\ version_result = [kind |-> "version", version |-> <<"4.5.6">>]

\* The phase of process_batch_rebuild a position belongs to: 1 Marking,
\* 2 Committing, 3 AwaitingChecksAppear, 4 AwaitingChecksComplete, and 5
\* for the end of the workflow (returned or raised).
RebuildPhase(p) ==
    CASE p = "mark" -> 1
      [] p \in {"git_add", "rev_parse", "push"} -> 2
      [] p = "checks_appear" -> 3
      [] p = "checks_complete" -> 4
      [] OTHER -> 5

\* A rebuild batch is being processed.
InRebuild == RebuildPhase(pc) < 5

\* C31: a run of process_batch_rebuild moves from a phase only to the same
\* phase, to the next one of Marking, Committing, AwaitingChecksAppear,
\* AwaitingChecksComplete, or to its end; while it runs, a file is staged or
\* committed only when every package of the batch is marked, and a check-run
\* poll has been issued only when the captured commit is pushed.
C31_RebuildPhasesInOrder ==
    [][InRebuild =>
          /\ RebuildPhase(pc') \in
                 {RebuildPhase(pc), RebuildPhase(pc) + 1, 5}
          /\ RebuildPhase(pc) = 1 => staged = {} /\ ~polled
          /\ staged' # {} => BatchPackages \subseteq marked'
          /\ RebuildPhase(pc') = 2 => BatchPackages \subseteq marked'
          /\ RebuildPhase(pc) = 2 => ~polled
          /\ polled' => commit_sha' \in pushes' /\ commit_sha' > 0]_vars

\* A batch of two packages went through every phase and its checks passed.
C31_Witness ==
    /\ pc = "checks_returned"
    /\ success
    /\ Len(batch) = 2
    /\ checks_found
    /\ polled

\* The commit of the current batch is being monitored.
Monitoring == pc \in {"checks_appear", "checks_complete", "checks_returned"}

\* The rebuild batches handed to process_batch_rebuild so far.
RebuildBatches ==
    SelectSeq(attempted, LAMBDA a : a.issue_type = "needs_rebuild")

\* The steps of commit_and_push_changes: a commit is created only by the
\* one git commit of a batch, after its staging; the id is captured only
\* between that commit and the push; the push adds that one commit to the
\* remote and starts the monitoring.
CommitPushSteps ==
    /\ commits' # commits =>
          /\ pc = "git_add"
          /\ pc' = "rev_parse"
          /\ commits' = Append(commits, BatchPackages)
    /\ commit_sha' # commit_sha =>
          \/ /\ pc = "rev_parse"
             /\ pc' = "push"
             /\ commit_sha' = Len(commits)
             /\ commit_sha' \notin pushes
          \/ /\ pc = "next_batch"
             /\ commit_sha' = 0
    /\ pushes' # pushes =>
          /\ pc = "push"
          /\ pc' = "checks_appear"
          /\ pushes' = pushes \cup {commit_sha}

\* C32: while the commit of a rebuild batch is monitored, the repository
\* holds one commit per rebuild batch so far, the last of them covers the
\* marker file of every package of the batch, the monitored id is the id of
\* that commit and every commit is pushed; commits, the captured id and the
\* pushes change only by the steps of commit_and_push_changes, in the order
\* stage, commit, capture, push.
C32_OneCommitOnePush ==
    /\ [](Monitoring =>
             /\ Len(commits) = Len(RebuildBatches)
             /\ commits[Len(commits)] = BatchPackages
             /\ commit_sha = Len(commits)
             /\ pushes = 1..Len(commits))
    /\ [][CommitPushSteps]_vars

\* The second rebuild batch of a run is monitored: two commits, two pushes.
C32_Witness ==
    /\ pc = "checks_complete"
    /\ Len(RebuildBatches) = 2
    /\ commit_sha = 2
    /\ pushes = {1, 2}

\* The packages of the releases requested for the batch, in request order.
RequestedPackages ==
    [i \in 1..Len(releases_created) |-> releases_created[i].package_name]

\* The packages of the first n records of the batch, in batch order.
BatchPrefix(n) == [i \in 1..n |-> batch[i].package_name]

\* C33: in phase 1 of process_batch_release the releases requested so far
\* are those of the records before the current one, in batch order, the
\* current record's release is requested only after its snapshot is
\* resolved, and no release status has been polled; whenever a release of
\* the batch has been polled, a release was requested for every record.
C33_SequentialThenPoll ==
    /\ pc \in {"rel_resolve", "rel_create"} =>
          /\ k <= Len(batch) + 1
          /\ RequestedPackages = BatchPrefix(k - 1)
          /\ polled_releases = {}
    /\ pc = "rel_create" =>
          /\ k <= Len(batch)
          /\ snapshot_name = batch[k].package_name
    /\ polled_releases # {} => RequestedPackages = BatchPrefix(Len(batch))

\* Both releases of a batch of two were requested and one is being polled.
C33_Witness ==
    /\ pc = "rel_wait"
    /\ Len(batch) = 2
    /\ Len(releases_created) = 2
    /\ polled_releases # {}

\* Artifact resolution or release creation failed for some record.
Phase1Failed ==
    fail_cause \in {"snapshot_query_failed", "snapshot_not_found",
                    "release_create_failed"}

\* C34: once artifact resolution or release creation has failed for the
\* record at position k of a release batch, the run is over with a non-zero
\* exit status: the releases requested are those of the records before k
\* and each of them still exists in the cluster, the loop stopped at k, and
\* no release of the batch was polled or waited for.
C34_Phase1FailsFast ==
    Phase1Failed =>
        /\ pc = "done"
        /\ exit_code = 1
        /\ exc \in {"CalledProcessError", "ValueError"}
        /\ k <= Len(batch)
        /\ RequestedPackages = BatchPrefix(k - 1)
        /\ \A i \in 1..Len(releases_created) :
              /\ releases_created[i].release_name <= Len(cluster_releases)
              /\ cluster_releases[releases_created[i].release_name] =
                     releases_created[i].snapshot_name
        /\ polled_releases = {}
        /\ wait_results = <<>>

\* The release of the second record of a batch could not be created: the
\* release of the first record exists, unpolled.
C34_Witness ==
    /\ fail_cause = "release_create_failed"
    /\ pc = "done"
    /\ k = 2
    /\ Len(releases_created) = 1
    /\ Len(cluster_releases) >= 1
    /\ polled_releases = {}

\* What the package index serves and what the lookups of the scan answer
\* are left as they are.
IndexAndLookupsUntouched ==
    /\ http_status' = http_status
    /\ page' = page
    /\ env' = env

\* C35 as stated: no step creates, changes or deletes a resource of the
\* package index or of the build system (the cluster that oc addresses).
C35_NothingMutated ==
    [][IndexAndLookupsUntouched /\ cluster_releases' = cluster_releases]_vars

\* C35, amended: the package index is never mutated, and the only mutation
\* of the build system is the creation of one Release for a resolved
\* snapshot by create_release_for_snapshot during a release batch; no
\* resource that exists is changed or deleted.
C35_OnlyReleasesCreated ==
    [][/\ IndexAndLookupsUntouched
       /\ cluster_releases' # cluster_releases =>
             /\ pc = "rel_create"
             /\ attempted[Len(attempted)].issue_type = "needs_release"
             /\ cluster_releases' = Append(cluster_releases, snapshot_name)
             /\ snapshot_name = batch[k].package_name]_vars

\* Two releases were created in the cluster by a run.
C35_Witness ==
    /\ Len(cluster_releases) = 2
    /\ Len(releases_created) = 2
    /\ pc = "rel_wait"

\* action_needed as the issue type fixes it.
ActionOf(t) ==
    CASE t = "no_issue" -> "none"
      [] t = "needs_rebuild" -> "rebuild"
      [] t = "needs_release" -> "release"
      [] t = "unknown" -> "investigate"

\* C36: every record returned by analyze_package has one of the four issue
\* types and the action of its type; needs_rebuild comes with a built commit
\* that differs from the head commit, needs_release and unknown with equal
\* commits, and every type but no_issue with a source version that differs
\* from the index version (no_issue with equal ones); an index version
\* "MISSING" with an absent source version is never no_issue.
C36_RecordWellFormed ==
    result.state = "returned" =>
        /\ result.issue_type \in
               {"no_issue", "needs_rebuild", "needs_release", "unknown"}
        /\ result.action_needed = ActionOf(result.issue_type)
        /\ result.issue_type = "needs_rebuild" =>
               result.built_commit_id # result.current_commit_id
        /\ result.issue_type \in {"needs_release", "unknown"} =>
               result.built_commit_id = result.current_commit_id
        /\ result.issue_type # "no_issue" <=>
               result.git_version # result.index_version
        /\ result.index_version = "MISSING" /\ result.git_version = NoneVal =>
               result.issue_type # "no_issue"

\* A package never published and without requirements.txt, whose commits
\* agree and which has no snapshot: the record says unknown.
C36_Witness ==
    /\ result.state = "returned"
    /\ result.index_version = "MISSING"
    /\ result.git_version = NoneVal
    /\ result.built_commit_id = result.current_commit_id
    /\ result.issue_type = "unknown"
    /\ result.action_needed = "investigate"

\* A poll of the completion loop answered with no check run at all.
EmptyCompletionPoll ==
    /\ pc = "checks_complete"
    /\ exc' = "none"
    /\ check_runs' = <<>>

\* C37: when wait_for_commit_checks returns from its completion loop, its
\* result is read off the check runs of the returning poll alone: True
\* exactly when none of them concluded failure or cancelled, whatever
\* earlier polls showed; and a poll of the completion loop that answers
\* with no check run leaves the function in the loop without a result.
C37_OutcomeFromLastPoll ==
    /\ [](ReturnedFromCompletion =>
             /\ check_runs # <<>>
             /\ success <=>
                    \A i \in 1..Len(check_runs) :
                        check_runs[i].conclusion \notin
                            {"failure", "cancelled"})
    /\ [][EmptyCompletionPoll =>
             /\ pc' = "checks_complete"
             /\ success' = success
             /\ fail_cause' = fail_cause]_vars

\* A check had failed while another was still running; on the returning
\* poll both read success and the function returned True.
C37_Witness ==
    /\ ReturnedFromCompletion
    /\ failed_before
    /\ success
    /\ Len(check_runs) = 2
    /\ \A i \in 1..2 : check_runs[i].conclusion = "success"

\* The first failure of the run was a status query of a release that
\* raised.
PollRaisedFirst == fail_cause = "release_query_failed"

\* The names of the releases requested for the batch.
ReleaseNames ==
    {releases_created[i].release_name : i \in 1..Len(releases_created)}

\* C38: an error raised by the status query of a release is caught in the
\* wait loop: it counts as that release's failure and the loop goes on with
\* the next release; the batch cannot succeed any more, and when the run
\* ends every release of the batch was polled and waited for and the exit
\* status is 1.
C38_PollErrorFailsOneRelease ==
    /\ [](PollRaisedFirst =>
             /\ pc \in {"rel_raised", "rel_wait", "rel_returned", "done"}
             /\ pc \in {"rel_wait", "rel_returned", "done"} => ~all_successful
             /\ pc = "done" =>
                   /\ exc = "Exit"
                   /\ exit_code = 1
                   /\ Len(wait_results) = Len(releases_created)
                   /\ polled_releases = ReleaseNames)
    /\ [][pc = "rel_raised" =>
             /\ pc' = "rel_wait"
             /\ k' = k + 1
             /\ ~all_successful'
             /\ wait_results' = Append(wait_results, FALSE)
             /\ exc' = "none"]_vars

\* The query of the first release raised; the second release was still
\* polled and succeeded; the run ended with exit status 1.
C38_Witness ==
    /\ PollRaisedFirst
    /\ pc = "done"
    /\ exit_code = 1
    /\ Len(releases_created) = 2
    /\ wait_results = <<FALSE, TRUE>>
    /\ polled_releases = ReleaseNames

RECURSIVE SumOf(_, _)
\* The sum of the values of a counting map over the keys in S.
SumOf(f, S) ==
    IF S = {}
    THEN 0
    ELSE LET x == CHOOSE y \in S : TRUE
         IN  f[x] + SumOf(f, S \ {x})

\* The records of the sequence whose issue type is t.
OfType(rs, t) == SelectSeq(rs, LAMBDA r : r.issue_type = t)

\* C39: in every report the scan builds, total_packages is the length of
\* all_packages, packages_with_issues the length of issues, issues is the
\* subsequence of all_packages whose type is not no_issue, and
\* issues_by_type counts the records of every type present, no_issue
\* included, so that its values sum to total_packages.
C39_SummaryMatchesLists ==
    report.state = "built" =>
        /\ report.total_packages = Len(report.all_packages)
        /\ report.packages_with_issues = Len(report.issues)
        /\ report.issues =
               SelectSeq(report.all_packages,
                         LAMBDA r : r.issue_type # "no_issue")
        /\ DOMAIN report.issues_by_type =
               {report.all_packages[i].issue_type :
                    i \in 1..Len(report.all_packages)}
        /\ \A t \in DOMAIN report.issues_by_type :
               report.issues_by_type[t] = Len(OfType(report.all_packages, t))
        /\ SumOf(report.issues_by_type, DOMAIN report.issues_by_type) =
               report.total_packages

\* A report of three packages, one of them without issue.
C39_Witness ==
    /\ report.state = "built"
    /\ report.total_packages = 3
    /\ report.packages_with_issues = 2
    /\ "no_issue" \in DOMAIN report.issues_by_type

\* How many times the package was part of a batch handed to a workflow.
TimesAttempted(p) ==
    Cardinality({ij \in (1..Len(attempted)) \X (1..MaxIssues) :
                    /\ ij[2] <= Len(attempted[ij[1]].batch)
                    /\ attempted[ij[1]].batch[ij[2]].package_name = p})

\* C40: whatever the batch size, zero and negative values included, a run
\* on a loaded report that has ended with exit status 0 has handed every
\* needs_rebuild and every needs_release issue of the report to exactly one
\* workflow batch.
C40_ExitZeroMeansAllSubmitted ==
    (/\ pc = "done"
     /\ exit_code = 0
     /\ file_state = "ok")
    => \A p \in RemediablePackages : TimesAttempted(p) = 1

====
